---- MODULE Spec2Model ----
(***************************************************************************)
(* A model of the statistical engine of the political-economic society     *)
(* simulacrum: the seeded sampler and agent builder of                     *)
(* backend/core/agent_generator.py, the validation of                      *)
(* backend/core/schemas.py, the bulk synthesizer and summariser of         *)
(* backend/core/population_summary.py, and the agent and demographic       *)
(* operations of backend/db/crud.py on the tables of backend/db/models.py. *)
(*                                                                         *)
(* Arithmetic is exact.  A probability and a draw r are integers counting  *)
(* 1/ProbScale.  A trait value is an integer counting the trait's unit     *)
(* (Traits[t].unit of them make 1.0), and a sampled value is a fraction    *)
(* [n, d] in lowest terms with d > 0.  Python's round() is PyRound: to the *)
(* nearest integer, a tie to the even one.                                 *)
(***************************************************************************)
EXTENDS Integers, Sequences, FiniteSets, TLC

VARIABLES
    d_input,        \* sampler: the arguments handed to DistributionData(...)
    d_object,       \* sampler: the object built from them, or the rejection
    random,         \* sampler: the state of the RandomState the sampler draws from
    sampled,        \* sampler: what sample_from_distribution returned
    gen_demographic, \* generation: the DemographicDistribution the agents are drawn from
    gen_seeds,       \* generation: each run's seed string
    gen_rngs,        \* generation: each run's DeterministicRandom, once constructed
    gen_agents,      \* generation: what each run's calls returned, in call order
    instances,       \* generation: how many DeterministicRandom the process has made
    mean_count,      \* sample mean: how many agents the test has generated
    mean_total,      \* sample mean: the sum of their ages
    bulk_input,      \* bulk sampler: the distribution and num_samples handed in
    bulk_output,     \* bulk sampler: the list returned
    summary_input,   \* summary: the arguments of summarize_population
    summary_agents,  \* summary: the synthetic agents it generated
    summary_output,  \* summary: the PopulationBuckets returned, or the exception
    summary_fit,     \* summary: what KMeans.fit_predict answered in that call
    summary_repeat,  \* summary: what the same call returned when made again
    multi_input,     \* several demographics: the arguments of summarize_multiple_demographics
    multi_output,    \* several demographics: the MultiPopulationBuckets returned
    ga_input,        \* generate_agents: the demographic handed in
    ga_calls,        \* generate_agents: each call's loop index, list and outcome
    ga_db,           \* generate_agents: the agents table's committed rows, and the session's pending ones
    wk_input,        \* workers: the demographic whose agents they generate
    wk_pc,           \* workers: where each worker is in generating its agent
    wk_rngs,         \* workers: the DeterministicRandom instances
    wk_partial,      \* workers: the numerical characteristics once generated
    wk_results,      \* workers: the characteristics each worker returned
    sch_input,       \* schemas: the fields handed to a model of schemas.py
    sch_object,      \* schemas: whether the object was built or a ValidationError raised
    db_agents,       \* database: the rows of the agents table, by id
    db_demographics, \* database: the rows of the demographics table, by id
    db_sequences,    \* database: the last id each table's sequence gave out
    crud_created,    \* crud: what each create call was given, by the id it produced
    crud_deleted,    \* crud: the ids create_agent produced that delete_agent was called with
    crud_last,       \* crud: the last call, its arguments and what it returned
    crud_calls       \* crud: how many calls have been made

samplerVars == <<d_input, d_object, random, sampled>>
generationVars == <<gen_demographic, gen_seeds, gen_rngs, gen_agents, instances>>
meanVars == <<mean_count, mean_total>>
bulkVars == <<bulk_input, bulk_output>>
summaryVars == <<summary_input, summary_agents, summary_output, summary_fit,
                 summary_repeat>>
multiVars == <<multi_input, multi_output>>
agentsVars == <<ga_input, ga_calls, ga_db>>
workersVars == <<wk_input, wk_pc, wk_rngs, wk_partial, wk_results>>
schemasVars == <<sch_input, sch_object>>
crudVars == <<db_agents, db_demographics, db_sequences, crud_created, crud_deleted,
              crud_last, crud_calls>>
notSamplerVars == <<generationVars, meanVars, bulkVars, summaryVars, multiVars,
                    agentsVars, workersVars,
                    schemasVars, crudVars>>
notGenerationVars == <<samplerVars, meanVars, bulkVars, summaryVars, multiVars,
                       agentsVars, workersVars,
                       schemasVars, crudVars>>
notMeanVars == <<samplerVars, generationVars, bulkVars, summaryVars, multiVars,
                 agentsVars, workersVars,
                 schemasVars, crudVars>>
notBulkVars == <<samplerVars, generationVars, meanVars, summaryVars, multiVars,
                 agentsVars, workersVars,
                 schemasVars, crudVars>>
notSummaryVars == <<samplerVars, generationVars, meanVars, bulkVars, multiVars,
                    agentsVars, workersVars,
                    schemasVars, crudVars>>
notMultiVars == <<samplerVars, generationVars, meanVars, bulkVars, summaryVars,
                  agentsVars, workersVars,
                  schemasVars, crudVars>>
notAgentsVars == <<samplerVars, generationVars, meanVars, bulkVars, summaryVars,
                   multiVars, workersVars,
                   schemasVars, crudVars>>
notWorkersVars == <<samplerVars, generationVars, meanVars, bulkVars, summaryVars,
                    multiVars, agentsVars,
                    schemasVars, crudVars>>
notSchemasVars == <<samplerVars, generationVars, meanVars, bulkVars, summaryVars,
                    multiVars, agentsVars, workersVars, crudVars>>
notCrudVars == <<samplerVars, generationVars, meanVars, bulkVars, summaryVars,
                 multiVars, agentsVars, workersVars, schemasVars>>
vars == <<d_input, d_object, random, sampled,
          gen_demographic, gen_seeds, gen_rngs, gen_agents, instances,
          mean_count, mean_total, bulk_input, bulk_output,
          summary_input, summary_agents, summary_output, summary_fit,
          summary_repeat, multi_input, multi_output, ga_input, ga_calls, ga_db,
          wk_input, wk_pc, wk_rngs, wk_partial, wk_results,
          sch_input, sch_object, db_agents, db_demographics, db_sequences,
          crud_created, crud_deleted, crud_last, crud_calls>>

----------------------------------------------------------------------------
(* Bounds and scales                                                       *)

\* Most points in one numeric distribution.
MaxPoints == 3

\* A float of [0, 1) is a multiple of 1/ProbScale.
ProbScale == 1000

----------------------------------------------------------------------------
(* Arithmetic                                                              *)

Abs(x) == IF x < 0 THEN -x ELSE x

RECURSIVE GCD(_, _)
GCD(a, b) == IF b = 0 THEN Abs(a) ELSE GCD(b, a % b)

\* The fraction n/d (d > 0) in lowest terms.
Rat(n, d) == LET g == GCD(Abs(n), d) IN [n |-> n \div g, d |-> d \div g]

\* Python's round(n/d) for d > 0: the nearest integer, a tie to the even one.
PyRound(n, d) ==
    LET q == n \div d
        rem == n - q * d
    IN  IF 2 * rem < d THEN q
        ELSE IF 2 * rem > d THEN q + 1
        ELSE IF q % 2 = 0 THEN q ELSE q + 1

Min(S) == CHOOSE x \in S : \A y \in S : x <= y

RECURSIVE SumProbability(_, _)
\* sum(p.probability for p in points[:k])
SumProbability(points, k) ==
    IF k = 0 THEN 0 ELSE SumProbability(points, k - 1) + points[k].probability

----------------------------------------------------------------------------
(* schemas.py: DistributionData                                            *)

\* @validator('range')
validate_range(v) == Len(v) = 2 /\ v[1] < v[2]

\* validate_points without the loop over the points' values.
validate_points_values_unchecked(v, range, range_ok) ==
    /\ Len(v) > 0
    /\ LET total_probability == SumProbability(v, Len(v))
       IN  99 * ProbScale <= 100 * total_probability
           /\ 100 * total_probability <= 101 * ProbScale

\* @validator('points'); range_ok says whether 'range' is in values.
validate_points(v, range, range_ok) ==
    /\ Len(v) > 0
    /\ range_ok => \A i \in 1..Len(v) :
                       ~(v[i].value < range[1] \/ v[i].value > range[2])
    /\ LET total_probability == SumProbability(v, Len(v))
       IN  99 * ProbScale <= 100 * total_probability
           /\ 100 * total_probability <= 101 * ProbScale

\* DistributionData(range=..., points=...): TRUE when the object is built.
DistributionData(range, points) ==
    /\ validate_range(range)
    /\ validate_points(points, range, validate_range(range))

----------------------------------------------------------------------------
(* schemas.py: the enumerations and the demographic distributions          *)
(*                                                                         *)
(* Units: age and years_of_education count 0.1 year, income_level counts   *)
(* 10 dollars, religiosity counts 0.1 and a political dimension counts     *)
(* 0.01.                                                                   *)

RaceEthnicity == {"white", "black", "hispanic", "south asian", "east asian",
                  "indigenous", "mena", "mixed/other"}
Gender == {"male", "female", "nonbinary", "other"}
Religion == {"hindu", "christian", "muslim", "jewish", "buddhist", "other"}
Urbanization == {"suburban", "urban", "rural"}
EducationStyle == {"formal k-12", "formal k-12 + university", "vocational",
                   "religious", "self-taught"}
EmploymentStyle == {"unemployed", "part-time", "white-collar", "blue-collar",
                    "entrepreneur", "self-employed", "executive/upper management",
                    "retired"}

\* The bounds the validators and the Field(ge=, le=) constraints put on a trait.
TraitLimits ==
    [age |-> <<10, 1200>>, income_level |-> <<0, 1000000>>,
     years_of_education |-> <<0, 220>>, religiosity |-> <<0, 100>>,
     political |-> <<-100, 100>>]

\* validate_age_range and its siblings: the declared range inside the trait's limits.
validate_trait_range(v, limits) ==
    ~(v.range[1] < limits[1] \/ v.range[2] > limits[2])

PoliticalAffiliationDistribution(v) ==
    /\ \A k \in {"economic", "governance", "cultural"} :
           DistributionData(v[k].range, v[k].points)
    /\ validate_trait_range(v.economic, TraitLimits.political)
    /\ validate_trait_range(v.governance, TraitLimits.political)
    /\ validate_trait_range(v.cultural, TraitLimits.political)

NumericalCharacteristicsDistribution(v) ==
    /\ \A k \in {"age", "income_level", "years_of_education", "religiosity"} :
           DistributionData(v[k].range, v[k].points)
    /\ PoliticalAffiliationDistribution(v.political_affiliation)
    /\ validate_trait_range(v.age, TraitLimits.age)
    /\ validate_trait_range(v.income_level, TraitLimits.income_level)
    /\ validate_trait_range(v.years_of_education, TraitLimits.years_of_education)
    /\ validate_trait_range(v.religiosity, TraitLimits.religiosity)

\* CategoricalProbabilityWithEnum.validate_probability
validate_probability(v) == ~(v < 0 \/ v > ProbScale)

\* validate_race_ethnicity and its siblings without the loop over the labels.
validate_categorical_any_label(v, enum) ==
    /\ \A i \in 1..Len(v) : validate_probability(v[i].probability)
    /\ LET total == SumProbability(v, Len(v))
       IN  99 * ProbScale <= 100 * total /\ 100 * total <= 101 * ProbScale

\* validate_race_ethnicity and its siblings, then validate_total_probability.
validate_categorical(v, enum) ==
    /\ \A i \in 1..Len(v) : validate_probability(v[i].probability)
    /\ \A i \in 1..Len(v) : v[i].category \in enum
    /\ LET total == SumProbability(v, Len(v))
       IN  99 * ProbScale <= 100 * total /\ 100 * total <= 101 * ProbScale

CategoricalCharacteristicsDistribution(v) ==
    /\ validate_categorical(v.race_ethnicity, RaceEthnicity)
    /\ validate_categorical(v.gender, Gender)
    /\ validate_categorical(v.religion, Religion)
    /\ validate_categorical(v.urbanization, Urbanization)
    /\ validate_categorical(v.education_style, EducationStyle)
    /\ validate_categorical(v.employment_style, EmploymentStyle)

DemographicDistribution(v) ==
    /\ NumericalCharacteristicsDistribution(v.numerical)
    /\ CategoricalCharacteristicsDistribution(v.categorical)

InLimits(x, limits) == x.n >= limits[1] * x.d /\ x.n <= limits[2] * x.d

\* PoliticalAffiliation(...) and AgentNumericalCharacteristics(...): the Field
\* constraints ge= and le=; FALSE is a ValidationError.
AgentNumericalCharacteristics(v) ==
    /\ InLimits(v.age, TraitLimits.age)
    /\ InLimits(v.income_level, TraitLimits.income_level)
    /\ InLimits(v.years_of_education, TraitLimits.years_of_education)
    /\ InLimits(v.religiosity, TraitLimits.religiosity)
    /\ InLimits(v.economic, TraitLimits.political)
    /\ InLimits(v.governance, TraitLimits.political)
    /\ InLimits(v.cultural, TraitLimits.political)

\* AgentCategoricalCharacteristics(...): each field a member of its enumeration.
AgentCategoricalCharacteristics(v) ==
    /\ v.race_ethnicity \in RaceEthnicity
    /\ v.gender \in Gender
    /\ v.religion \in Religion
    /\ v.urbanization \in Urbanization
    /\ v.education_style \in EducationStyle
    /\ v.employment_style \in EmploymentStyle

----------------------------------------------------------------------------
(* agent_generator.py: DeterministicRandom                                 *)

\* hashlib.md5(seed.encode()) as an integer, % 2**32: a table over the seeds
\* used.  For the seeds of generate_agents the entry is md5's last nine decimal
\* digits, which leave its residue modulo ProbScale as it is.
md5_seed_int(seed) ==
    CASE seed = "fixed_seed" -> 1189641421
      [] seed = "test_seed_1" -> 305419896
      [] seed = "test_seed_2" -> 2023406814
      [] seed = "1_Urban Professionals_0" -> 529977414
      [] seed = "1_Urban Professionals_1" -> 967585112
      [] seed = "1_Urban Professionals_2" -> 694771940
      [] seed = "1_Urban Professionals_3" -> 207431710
      [] seed = "1_Urban Professionals_4" -> 107220901
      [] seed = "2_Urban Professionals_0" -> 182426182
      [] seed = "2_Urban Professionals_1" -> 225428297
      [] seed = "2_Urban Professionals_2" -> 343166022
      [] seed = "2_Urban Professionals_3" -> 417712174
      [] seed = "2_Urban Professionals_4" -> 994177396
      [] OTHER -> 19088743

\* np.random.RandomState(seed_int): the state of a generator that is a
\* full-period congruential one over the ProbScale floats of [0, 1).
RandomState(seed_int) == seed_int % ProbScale

\* DeterministicRandom seeded from how many generators the process has made.
DeterministicRandom_ambient(seed) == RandomState(md5_seed_int(seed) + 333 * instances)

\* DeterministicRandom(seed).rng
DeterministicRandom(seed) == RandomState(md5_seed_int(seed))

\* DeterministicRandom.random(): the next float of [0, 1) and the state after it.
rng_random(state) == [r |-> state, next |-> (21 * state + 7) % ProbScale]

\* DeterministicRandom.choice(items, p): numpy refuses p that does not sum to 1
\* (before it draws), else draws once and searches the cumulative sums.
rng_choice(items, p, state) ==
    IF SumProbability(p, Len(p)) # ProbScale \/ \E i \in 1..Len(p) : p[i].probability < 0
    THEN [raised |-> TRUE, value |-> "", random |-> state]
    ELSE LET draw == rng_random(state)
             idx == Cardinality({i \in 1..Len(p) :
                                     SumProbability(p, i) <= draw.r})
         IN  [raised |-> FALSE, value |-> items[idx + 1], random |-> draw.next]

----------------------------------------------------------------------------
(* agent_generator.py: sample_from_distribution                            *)

\* sorted(points, key=lambda p: p.value): stable.
RECURSIVE sorted_by_value(_)
sorted_by_value(points) ==
    IF points = <<>> THEN <<>>
    ELSE LET n == Len(points)
             init == sorted_by_value(SubSeq(points, 1, n - 1))
             last == points[n]
             k == Cardinality({i \in 1..Len(init) : init[i].value <= last.value})
         IN  SubSeq(init, 1, k) \o <<last>> \o SubSeq(init, k + 1, Len(init))

cumulative_probs(sorted_points) ==
    [i \in 1..Len(sorted_points) |-> SumProbability(sorted_points, i)]

\* sample_value with the first segment interpolated up from the range minimum.
sample_value_from_min(distribution, r) ==
    LET sorted_points == sorted_by_value(distribution.points)
        cum == cumulative_probs(sorted_points)
        hits == {i \in 1..Len(sorted_points) : r <= cum[i]}
    IN  IF hits = {}
        THEN [raised |-> FALSE,
              value |-> Rat(sorted_points[Len(sorted_points)].value, 1)]
        ELSE LET i == Min(hits)
                 prev_cum_prob == IF i = 1 THEN 0 ELSE cum[i - 1]
                 prev_value == IF i = 1 THEN distribution.range[1]
                               ELSE sorted_points[i - 1].value
                 prob_range == cum[i] - prev_cum_prob
             IN  IF prob_range = 0
                 THEN [raised |-> TRUE, value |-> Rat(0, 1)]
                 ELSE [raised |-> FALSE,
                       value |-> Rat(prev_value * prob_range
                                     + (r - prev_cum_prob)
                                       * (sorted_points[i].value - prev_value),
                                     prob_range)]

\* sample_value as a step function: the point found, never interpolated.
sample_value_step(distribution, r) ==
    LET sorted_points == sorted_by_value(distribution.points)
        cum == cumulative_probs(sorted_points)
        hits == {i \in 1..Len(sorted_points) : r <= cum[i]}
    IN  [raised |-> FALSE,
         value |-> Rat(sorted_points[IF hits = {} THEN Len(sorted_points)
                                     ELSE Min(hits)].value, 1)]

\* The value returned for the draw r; raised is a ZeroDivisionError.
sample_value(distribution, r) ==
    LET sorted_points == sorted_by_value(distribution.points)
        cum == cumulative_probs(sorted_points)
        hits == {i \in 1..Len(sorted_points) : r <= cum[i]}
    IN  IF hits = {}
        THEN [raised |-> FALSE,
              value |-> Rat(sorted_points[Len(sorted_points)].value, 1)]
        ELSE LET i == Min(hits) IN
             IF i = 1 \/ r = cum[i]
             THEN [raised |-> FALSE, value |-> Rat(sorted_points[i].value, 1)]
             ELSE LET prev_cum_prob == cum[i - 1]
                      prev_value == sorted_points[i - 1].value
                      curr_value == sorted_points[i].value
                      prob_range == cum[i] - prev_cum_prob
                  IN  IF prob_range = 0
                      THEN [raised |-> TRUE, value |-> Rat(0, 1)]
                      ELSE [raised |-> FALSE,
                            value |-> Rat(prev_value * prob_range
                                          + (r - prev_cum_prob) * (curr_value - prev_value),
                                          prob_range)]

sample_from_distribution(distribution, rnd) ==
    LET draw == rng_random(rnd)
        out == sample_value(distribution, draw.r)
    IN  [raised |-> out.raised, value |-> out.value, random |-> draw.next]

----------------------------------------------------------------------------
(* agent_generator.py: one agent's characteristics                         *)

\* round(value / nearest) * nearest
round_to_nearest(value, nearest) ==
    Rat(PyRound(value.n, value.d * nearest) * nearest, 1)

\* The increments of lines 198-227 in the traits' units: a whole year, 100
\* dollars, 0.5 and 0.05.
Nearest == [age |-> 10, income_level |-> 10, religiosity |-> 5, political |-> 5]

\* The sample_from_distribution calls of a function body in the order of the
\* code, each on the generator as the call before left it; the calls after one
\* that raised are not made.
RECURSIVE sample_in_order(_, _, _)
sample_in_order(distributions, rnd, values) ==
    IF distributions = <<>>
    THEN [raised |-> FALSE, values |-> values, random |-> rnd]
    ELSE CHOOSE result \in
             {IF out.raised
              THEN [raised |-> TRUE, values |-> values, random |-> out.random]
              ELSE sample_in_order(Tail(distributions), out.random,
                                   Append(values, out.value))
                 : out \in {sample_from_distribution(Head(distributions), rnd)}} : TRUE

\* The distributions of generate_numerical_characteristics in the order sampled.
numerical_order(numerical_distribution) ==
    <<numerical_distribution.age, numerical_distribution.income_level,
      numerical_distribution.years_of_education, numerical_distribution.religiosity,
      numerical_distribution.political_affiliation.economic,
      numerical_distribution.political_affiliation.governance,
      numerical_distribution.political_affiliation.cultural>>

NoNumerical ==
    [age |-> Rat(0, 1), income_level |-> Rat(0, 1), years_of_education |-> Rat(0, 1),
     religiosity |-> Rat(0, 1), economic |-> Rat(0, 1), governance |-> Rat(0, 1),
     cultural |-> Rat(0, 1)]

\* generate_numerical_characteristics with years_of_education rounded to a whole year.
generate_numerical_characteristics_rounded(numerical_distribution, rnd) ==
    LET fields(v) ==
            [age |-> round_to_nearest(v[1], Nearest.age),
             income_level |-> round_to_nearest(v[2], Nearest.income_level),
             years_of_education |-> round_to_nearest(v[3], Nearest.age),
             religiosity |-> round_to_nearest(v[4], Nearest.religiosity),
             economic |-> round_to_nearest(v[5], Nearest.political),
             governance |-> round_to_nearest(v[6], Nearest.political),
             cultural |-> round_to_nearest(v[7], Nearest.political)]
    IN  CHOOSE result \in
            {IF sampled_values.raised
             THEN [raised |-> TRUE, value |-> NoNumerical,
                   random |-> sampled_values.random]
             ELSE [raised |-> FALSE, value |-> fields(sampled_values.values),
                   random |-> sampled_values.random]
                : sampled_values \in
                    {sample_in_order(numerical_order(numerical_distribution),
                                     rnd, <<>>)}} : TRUE

generate_numerical_characteristics(numerical_distribution, rnd) ==
    LET fields(v) ==
            [age |-> round_to_nearest(v[1], Nearest.age),
             income_level |-> round_to_nearest(v[2], Nearest.income_level),
             years_of_education |-> v[3],
             religiosity |-> round_to_nearest(v[4], Nearest.religiosity),
             economic |-> round_to_nearest(v[5], Nearest.political),
             governance |-> round_to_nearest(v[6], Nearest.political),
             cultural |-> round_to_nearest(v[7], Nearest.political)]
    IN  CHOOSE result \in
            {IF sampled_values.raised
                \/ ~AgentNumericalCharacteristics(fields(sampled_values.values))
             THEN [raised |-> TRUE, value |-> NoNumerical,
                   random |-> sampled_values.random]
             ELSE [raised |-> FALSE, value |-> fields(sampled_values.values),
                   random |-> sampled_values.random]
                : sampled_values \in
                    {sample_in_order(numerical_order(numerical_distribution),
                                     rnd, <<>>)}} : TRUE

\* agent_generator.sample_from_categorical
sample_from_categorical(distribution, rnd) ==
    LET categories == [i \in 1..Len(distribution) |-> distribution[i].category]
    IN  rng_choice(categories, distribution, rnd)

\* The sample_from_categorical calls of a function body in the order of the code.
RECURSIVE choose_in_order(_, _, _)
choose_in_order(distributions, rnd, values) ==
    IF distributions = <<>>
    THEN [raised |-> FALSE, values |-> values, random |-> rnd]
    ELSE CHOOSE result \in
             {IF out.raised
              THEN [raised |-> TRUE, values |-> values, random |-> out.random]
              ELSE choose_in_order(Tail(distributions), out.random,
                                   Append(values, out.value))
                 : out \in {sample_from_categorical(Head(distributions), rnd)}} : TRUE

\* The distributions of generate_categorical_characteristics in the order sampled.
categorical_order(categorical_distribution) ==
    <<categorical_distribution.race_ethnicity, categorical_distribution.gender,
      categorical_distribution.religion, categorical_distribution.urbanization,
      categorical_distribution.education_style,
      categorical_distribution.employment_style>>

NoCategorical ==
    [race_ethnicity |-> "", gender |-> "", religion |-> "", urbanization |-> "",
     education_style |-> "", employment_style |-> "", location |-> ""]

generate_categorical_characteristics(categorical_distribution, rnd) ==
    LET fields(v) ==
            [race_ethnicity |-> v[1], gender |-> v[2], religion |-> v[3],
             urbanization |-> v[4], education_style |-> v[5],
             employment_style |-> v[6],
             location |-> categorical_distribution.location]
    IN  CHOOSE result \in
            {IF chosen.raised \/ ~AgentCategoricalCharacteristics(fields(chosen.values))
             THEN [raised |-> TRUE, value |-> NoCategorical, random |-> chosen.random]
             ELSE [raised |-> FALSE, value |-> fields(chosen.values),
                   random |-> chosen.random]
                : chosen \in
                    {choose_in_order(categorical_order(categorical_distribution),
                                     rnd, <<>>)}} : TRUE

\* What the call returns, and the generator's state after it; raised is an
\* exception leaving the call.
generate_agent_characteristics(demographic, rnd) ==
    CHOOSE result \in
        {IF numerical_chars.raised
         THEN [raised |-> TRUE, numerical |-> NoNumerical, categorical |-> NoCategorical,
               random |-> numerical_chars.random]
         ELSE CHOOSE agent \in
                  {IF categorical_chars.raised
                   THEN [raised |-> TRUE, numerical |-> NoNumerical,
                         categorical |-> NoCategorical,
                         random |-> categorical_chars.random]
                   ELSE [raised |-> FALSE, numerical |-> numerical_chars.value,
                         categorical |-> categorical_chars.value,
                         random |-> categorical_chars.random]
                      : categorical_chars \in
                          {generate_categorical_characteristics(
                               demographic.categorical, numerical_chars.random)}} : TRUE
            : numerical_chars \in
                {generate_numerical_characteristics(demographic.numerical, rnd)}} : TRUE

----------------------------------------------------------------------------
(* population_summary.py: the bulk samplers                                *)

\* [value] * count: no copies for a count below 1.
Copies(value, count) == [j \in 1..count |-> value]

\* round(probability * num_samples)
allocation(probability, num_samples) == PyRound(probability * num_samples, ProbScale)

\* for point in points: values.extend([point.value] * count), over points[:k];
\* entries carry their value under `value` or `category`.
RECURSIVE extend_all(_, _, _)
extend_all(entries, k, num_samples) ==
    IF k = 0 THEN <<>>
    ELSE extend_all(entries, k - 1, num_samples)
         \o Copies(entries[k].item, allocation(entries[k].probability, num_samples))

\* max(entries, key=lambda p: p.probability): the first of the largest.
max_prob(entries) ==
    entries[Min({i \in 1..Len(entries) :
                    \A j \in 1..Len(entries) :
                        entries[j].probability <= entries[i].probability})]

\* max() answering the last of the largest.
max_prob_last(entries) ==
    entries[CHOOSE i \in 1..Len(entries) :
                /\ \A j \in 1..Len(entries) :
                       entries[j].probability <= entries[i].probability
                /\ \A j \in (i + 1)..Len(entries) :
                       entries[j].probability < entries[i].probability]

\* The two samplers differ in the field that carries the value.
bulk_sample_unpadded(entries, num_samples) ==
    LET values == extend_all(entries, Len(entries), num_samples)
    IN  IF Len(values) > num_samples THEN SubSeq(values, 1, num_samples) ELSE values

bulk_sample_pad_last(entries, num_samples) ==
    LET values == extend_all(entries, Len(entries), num_samples)
        padded == IF Len(values) < num_samples
                  THEN values \o Copies(max_prob_last(entries).item,
                                        num_samples - Len(values))
                  ELSE values
    IN  IF Len(padded) > num_samples THEN SubSeq(padded, 1, num_samples) ELSE padded

\* The body the two samplers share: allocate, pad while short, cut when long.
bulk_sample(entries, num_samples) ==
    LET values == extend_all(entries, Len(entries), num_samples)
        padded == IF Len(values) < num_samples
                  THEN values \o Copies(max_prob(entries).item,
                                        num_samples - Len(values))
                  ELSE values
    IN  IF Len(padded) > num_samples THEN SubSeq(padded, 1, num_samples) ELSE padded

\* population_summary.sample_from_distribution(distribution, num_samples)
summary_sample_from_distribution(distribution, num_samples) ==
    bulk_sample([i \in 1..Len(distribution.points) |->
                     [item |-> distribution.points[i].value,
                      probability |-> distribution.points[i].probability]],
                num_samples)

\* population_summary.sample_from_categorical(distribution, num_samples)
summary_sample_from_categorical(distribution, num_samples) ==
    bulk_sample([i \in 1..Len(distribution) |->
                     [item |-> distribution[i].category,
                      probability |-> distribution[i].probability]],
                num_samples)

----------------------------------------------------------------------------
(* population_summary.py: synthetic agents and representative profiles     *)

generate_synthetic_agents(characteristics, num_agents) ==
    LET numerical_chars == characteristics.numerical
        categorical_chars == characteristics.categorical
        ages == summary_sample_from_distribution(numerical_chars.age, num_agents)
        incomes == summary_sample_from_distribution(numerical_chars.income_level, num_agents)
        education_years ==
            summary_sample_from_distribution(numerical_chars.years_of_education, num_agents)
        religiosity == summary_sample_from_distribution(numerical_chars.religiosity, num_agents)
        economic ==
            summary_sample_from_distribution(numerical_chars.political_affiliation.economic,
                                             num_agents)
        governance ==
            summary_sample_from_distribution(numerical_chars.political_affiliation.governance,
                                             num_agents)
        cultural ==
            summary_sample_from_distribution(numerical_chars.political_affiliation.cultural,
                                             num_agents)
        race_ethnicities ==
            summary_sample_from_categorical(categorical_chars.race_ethnicity, num_agents)
        genders == summary_sample_from_categorical(categorical_chars.gender, num_agents)
        religions == summary_sample_from_categorical(categorical_chars.religion, num_agents)
        urbanizations ==
            summary_sample_from_categorical(categorical_chars.urbanization, num_agents)
        education_styles ==
            summary_sample_from_categorical(categorical_chars.education_style, num_agents)
        employment_styles ==
            summary_sample_from_categorical(categorical_chars.employment_style, num_agents)
    IN  [i \in 1..num_agents |->
            [age |-> ages[i], income |-> incomes[i],
             education_years |-> education_years[i], religiosity |-> religiosity[i],
             political_economic |-> economic[i],
             political_governance |-> governance[i],
             political_cultural |-> cultural[i],
             race_ethnicity |-> race_ethnicities[i], gender |-> genders[i],
             religion |-> religions[i], urbanization |-> urbanizations[i],
             education_style |-> education_styles[i],
             employment_style |-> employment_styles[i],
             location |-> categorical_chars.location]]

\* The feature vector of lines 274-282; each entry is the trait over a constant,
\* so two agents have equal vectors exactly when these tuples are equal.
feature(agent) ==
    <<agent.age, agent.income, agent.education_years, agent.political_economic,
      agent.political_governance, agent.political_cultural, agent.religiosity>>

\* KMeans(n_clusters=num_profiles, random_state=42).fit_predict(features) raises
\* for no cluster, for no sample and for fewer samples than clusters.
kmeans_raises(agents, num_profiles) ==
    num_profiles < 1 \/ Len(agents) = 0 \/ Len(agents) < num_profiles

\* The labellings fit_predict may answer: each sample the label of its nearest
\* centre, so samples with equal features share a label.
kmeans_labellings(agents, num_profiles) ==
    {labels \in [1..Len(agents) -> 0..(num_profiles - 1)] :
        \A i, j \in 1..Len(agents) :
            feature(agents[i]) = feature(agents[j]) => labels[i] = labels[j]}

NotFitted == [called |-> FALSE, agents |-> <<>>, num_profiles |-> 0, labels |-> <<>>]

\* fit_predict with random_state left unset: the centres are seeded afresh in
\* every call.
fit_predict_unseeded(agents, num_profiles, earlier) ==
    kmeans_labellings(agents, num_profiles)

\* KMeans(n_clusters=num_profiles, random_state=42).fit_predict(features): the
\* seed of the centres is fixed, so the labels are a function of the features
\* and of num_profiles.  `earlier` is a call made before and what it answered.
fit_predict(agents, num_profiles, earlier) ==
    IF earlier.called /\ earlier.agents = agents /\ earlier.num_profiles = num_profiles
    THEN {earlier.labels}
    ELSE kmeans_labellings(agents, num_profiles)

\* The labels in the order the loop of lines 290-292 first meets them.
RECURSIVE label_order(_, _)
label_order(labels, k) ==
    IF k = 0 THEN <<>>
    ELSE LET before == label_order(labels, k - 1)
         IN  IF \E i \in 1..Len(before) : before[i] = labels[k]
             THEN before ELSE Append(before, labels[k])

\* agents[:k] whose label is `label`, in order.
RECURSIVE members(_, _, _, _)
members(agents, labels, label, k) ==
    IF k = 0 THEN <<>>
    ELSE IF labels[k] = label
    THEN Append(members(agents, labels, label, k - 1), agents[k])
    ELSE members(agents, labels, label, k - 1)

\* clusters[label] = [agent]: each label keeps the last agent alone.
group_clusters_overwritten(agents, labels) ==
    LET order == label_order(labels, Len(labels))
    IN  [c \in 1..Len(order) |->
            LET all == members(agents, labels, order[c], Len(agents))
            IN  <<all[Len(all)]>>]

\* clusters = defaultdict(list); clusters[label].append(agents[i])
group_clusters(agents, labels) ==
    LET order == label_order(labels, Len(labels))
    IN  [c \in 1..Len(order) |-> members(agents, labels, order[c], Len(agents))]

SeqMin(xs) == CHOOSE x \in {xs[i] : i \in 1..Len(xs)} : \A i \in 1..Len(xs) : x <= xs[i]
SeqMax(xs) == CHOOSE x \in {xs[i] : i \in 1..Len(xs)} : \A i \in 1..Len(xs) : x >= xs[i]

RECURSIVE SeqSum(_, _)
SeqSum(xs, k) == IF k = 0 THEN 0 ELSE SeqSum(xs, k - 1) + xs[k]

\* max(Counter(xs).items(), key=lambda x: x[1])[0]: the most frequent, the one
\* met first among equals.
dominant(xs) ==
    LET times(x) == Cardinality({i \in 1..Len(xs) : xs[i] = x})
        first(x) == Min({i \in 1..Len(xs) : xs[i] = x})
        best == {x \in {xs[i] : i \in 1..Len(xs)} :
                    \A i \in 1..Len(xs) : times(xs[i]) <= times(x)}
    IN  CHOOSE x \in best : \A y \in best : first(x) <= first(y)

\* dominant_age with the bounds on the other side: 35 is still Young, 60 still
\* Middle-Aged.
dominant_age_inclusive(age_max) ==
    IF age_max <= 350 THEN "Young" ELSE IF age_max <= 600 THEN "Middle-Aged" ELSE "Senior"

\* Lines 337: ages count 0.1 year.
dominant_age(age_max) ==
    IF age_max < 350 THEN "Young" ELSE IF age_max < 600 THEN "Middle-Aged" ELSE "Senior"

\* political_desc with a mean on a threshold counted as beyond it.
political_desc_inclusive(sum_economic, sum_cultural, cluster_size) ==
    LET t == 20 * cluster_size IN
    IF Abs(sum_economic) < t /\ Abs(sum_cultural) < t THEN "Centrist"
    ELSE IF sum_economic <= -t /\ sum_cultural <= -t THEN "Progressive"
    ELSE IF sum_economic >= t /\ sum_cultural >= t THEN "Conservative"
    ELSE IF sum_economic <= -t /\ sum_cultural >= t
    THEN "Socially Conservative, Economically Liberal"
    ELSE IF sum_economic >= t /\ sum_cultural <= -t
    THEN "Socially Liberal, Economically Conservative"
    ELSE "Mixed Political Views"

\* Lines 341-353 on the sums of a cluster of cluster_size agents; a political
\* dimension counts 0.01, so 0.2 is 20.
political_desc(sum_economic, sum_cultural, cluster_size) ==
    LET t == 20 * cluster_size IN
    IF Abs(sum_economic) < t /\ Abs(sum_cultural) < t THEN "Centrist"
    ELSE IF sum_economic < -t /\ sum_cultural < -t THEN "Progressive"
    ELSE IF sum_economic > t /\ sum_cultural > t THEN "Conservative"
    ELSE IF sum_economic < -t /\ sum_cultural > t
    THEN "Socially Conservative, Economically Liberal"
    ELSE IF sum_economic > t /\ sum_cultural < -t
    THEN "Socially Liberal, Economically Conservative"
    ELSE "Mixed Political Views"

\* The profile of one cluster (lines 298-377); the six category -> percentage
\* maps are left out, and the name is kept as its four parts.
profile_of(cluster_agents, total_agents) ==
    LET cluster_size == Len(cluster_agents)
        col(f) == [i \in 1..cluster_size |-> cluster_agents[i][f]]
        ages == col("age")
        incomes == col("income")
        sum_economic == SeqSum(col("political_economic"), cluster_size)
        sum_governance == SeqSum(col("political_governance"), cluster_size)
        sum_cultural == SeqSum(col("political_cultural"), cluster_size)
    IN  [name |-> <<dominant_age(SeqMax(ages)), dominant(col("urbanization")),
                    dominant(col("employment_style")),
                    political_desc(sum_economic, sum_cultural, cluster_size)>>,
         count |-> cluster_size,
         percentage |-> Rat(cluster_size * 100, total_agents),
         age_range |-> <<SeqMin(ages), SeqMax(ages)>>,
         income_range |-> <<SeqMin(incomes), SeqMax(incomes)>>,
         education_years |-> Rat(SeqSum(col("education_years"), cluster_size), cluster_size),
         political_leaning |->
             [economic |-> Rat(sum_economic, cluster_size),
              governance |-> Rat(sum_governance, cluster_size),
              cultural |-> Rat(sum_cultural, cluster_size)]]

\* profiles.sort(key=lambda p: p.count): the smallest cluster first.
RECURSIVE sort_by_count_ascending(_)
sort_by_count_ascending(profiles) ==
    IF profiles = <<>> THEN <<>>
    ELSE LET n == Len(profiles)
             init == sort_by_count_ascending(SubSeq(profiles, 1, n - 1))
             last == profiles[n]
             k == Cardinality({i \in 1..Len(init) : init[i].count <= last.count})
         IN  SubSeq(init, 1, k) \o <<last>> \o SubSeq(init, k + 1, Len(init))

\* profiles.sort(key=lambda p: p.count, reverse=True): stable.
RECURSIVE sort_by_count(_)
sort_by_count(profiles) ==
    IF profiles = <<>> THEN <<>>
    ELSE LET n == Len(profiles)
             init == sort_by_count(SubSeq(profiles, 1, n - 1))
             last == profiles[n]
             k == Cardinality({i \in 1..Len(init) : init[i].count >= last.count})
         IN  SubSeq(init, 1, k) \o <<last>> \o SubSeq(init, k + 1, Len(init))

\* create_representative_profiles given the labels fit_predict answered.
create_representative_profiles(agents, labels) ==
    LET clusters == group_clusters(agents, labels)
    IN  sort_by_count([c \in 1..Len(clusters) |-> profile_of(clusters[c], Len(agents))])

----------------------------------------------------------------------------
(* Each specification below runs one part of the program; the variables of *)
(* the other parts stay at these values.                                   *)

NoDistribution == [range |-> <<>>, points |-> <<>>]
NoSample == [done |-> FALSE, r |-> 0, raised |-> FALSE, value |-> Rat(0, 1)]

SamplerIdle ==
    /\ d_input = NoDistribution
    /\ d_object = [built |-> FALSE, rejected |-> FALSE]
    /\ random = 0
    /\ sampled = NoSample

GenerationIdle ==
    /\ gen_demographic = <<>>
    /\ gen_seeds = <<>>
    /\ gen_rngs = <<>>
    /\ gen_agents = <<>>
    /\ instances = 0

MeanIdle == mean_count = 0 /\ mean_total = 0

NoBulkInput == [kind |-> "", distribution |-> <<>>, num_samples |-> 0]

BulkIdle ==
    /\ bulk_input = NoBulkInput
    /\ bulk_output = [done |-> FALSE, values |-> <<>>]

NoSummary == [done |-> FALSE, raised |-> FALSE, total_agents |-> 0, profiles |-> <<>>]

SummaryIdle ==
    /\ summary_input = [characteristics |-> <<>>, num_agents |-> 0, num_buckets |-> 0]
    /\ summary_agents = <<>>
    /\ summary_output = NoSummary
    /\ summary_fit = NotFitted
    /\ summary_repeat = NoSummary

NoMultiSummary ==
    [done |-> FALSE, raised |-> FALSE, demographic_buckets |-> <<>>, total_agents |-> 0]

MultiIdle ==
    /\ multi_input = [demographics_list |-> <<>>, num_buckets_per_demographic |-> 0]
    /\ multi_output = NoMultiSummary

AgentsIdle ==
    /\ ga_input = <<>>
    /\ ga_calls = <<>>
    /\ ga_db = [committed |-> <<>>, pending |-> <<>>]

WorkersIdle ==
    /\ wk_input = <<>>
    /\ wk_pc = <<>>
    /\ wk_rngs = <<>>
    /\ wk_partial = <<>>
    /\ wk_results = <<>>

SchemasIdle ==
    /\ sch_input = [model |-> "", fields |-> <<>>]
    /\ sch_object = [built |-> FALSE, rejected |-> FALSE, fields |-> <<>>]

\* What a crud call returned: None, a row with its id, or a bool.
ReturnNone == [kind |-> "None", id |-> 0, row |-> <<>>, bool |-> FALSE]
ReturnRow(id, row) == [kind |-> "row", id |-> id, row |-> row, bool |-> FALSE]
ReturnBool(b) == [kind |-> "bool", id |-> 0, row |-> <<>>, bool |-> b]

\* `before` is the agents table as the call found it.
NoCall == [call |-> "", id |-> 0, data |-> <<>>, raised |-> FALSE,
           result |-> ReturnNone, before |-> <<>>]

\* The tables are empty and their sequences have given out no id.
CrudIdle ==
    /\ db_agents = <<>>
    /\ db_demographics = <<>>
    /\ db_sequences = [agents |-> 0, demographics |-> 0]
    /\ crud_created = [agents |-> <<>>, demographics |-> <<>>]
    /\ crud_deleted = {}
    /\ crud_last = NoCall
    /\ crud_calls = 0

----------------------------------------------------------------------------
(* The sampler on every distribution the validation lets through           *)

PointValues == {25, 75}
PointProbabilities == {-250, 0, 250, 490, 500, 1000, 1240}
Points == [value : PointValues, probability : PointProbabilities]
Ranges == {<<0, 100>>, <<30, 100>>, <<50, 50>>, <<100, 0>>, <<50>>, <<0, 50, 100>>}
PointLists == UNION {[1..n -> Points] : n \in 0..MaxPoints}

\* The draws tried: every 25/1000, and the ones next to a cumulative probability.
Draws == {25 * k : k \in 0..39} \cup {490, 990, 995, 999}

\* DistributionData(range=range, points=points)
Construct(range, points) ==
    /\ ~d_object.built /\ ~d_object.rejected
    /\ d_input' = [range |-> range, points |-> points]
    /\ d_object' = IF DistributionData(range, points)
                   THEN [built |-> TRUE, rejected |-> FALSE]
                   ELSE [built |-> FALSE, rejected |-> TRUE]
    /\ UNCHANGED <<random, sampled>>
    /\ UNCHANGED notSamplerVars

\* sample_from_distribution(distribution, random) with the generator about to draw r
Sample(r) ==
    /\ d_object.built /\ ~sampled.done
    /\ LET out == sample_from_distribution(d_input, r)
       IN  /\ sampled' = [done |-> TRUE, r |-> rng_random(r).r,
                           raised |-> out.raised, value |-> out.value]
           /\ random' = out.random
    /\ UNCHANGED <<d_input, d_object>>
    /\ UNCHANGED notSamplerVars

SamplerInit == SamplerIdle /\ GenerationIdle /\ MeanIdle /\ BulkIdle /\ SummaryIdle
    /\ MultiIdle /\ AgentsIdle /\ WorkersIdle /\ SchemasIdle /\ CrudIdle

SamplerNext ==
    \/ /\ ~d_object.built /\ ~d_object.rejected
       /\ \E range \in Ranges, points \in PointLists : Construct(range, points)
    \/ /\ d_object.built /\ ~sampled.done
       /\ \E r \in Draws : Sample(r)

SpecSampler == SamplerInit /\ [][SamplerNext]_vars

----------------------------------------------------------------------------
(* Claims on the seeded numeric sampler (SpecSampler)                      *)

SortedInput == sorted_by_value(d_input.points)
CumInput == cumulative_probs(SortedInput)
\* The sorted points whose cumulative probability is >= the draw.
HitsInput == {i \in 1..Len(SortedInput) : sampled.r <= CumInput[i]}
FirstHit == Min(HitsInput)

\* C4: when the first sorted point i with cumulative probability >= r is the
\* first point, or r equals that cumulative probability, the sampler returns
\* point i's value itself; points {(25,0.5),(75,0.5)} with r = 0.5 give 25.
C4_BoundaryReturnsPointValue ==
    sampled.done =>
        /\ (HitsInput # {} /\ (FirstHit = 1 \/ sampled.r = CumInput[FirstHit]))
               => /\ ~sampled.raised
                  /\ sampled.value = [n |-> SortedInput[FirstHit].value, d |-> 1]
        /\ (d_input.points = <<[value |-> 25, probability |-> 500],
                               [value |-> 75, probability |-> 500]>>
            /\ sampled.r = 500)
               => sampled.value = [n |-> 25, d |-> 1]

C4_Witness ==
    /\ sampled.done
    /\ d_input.points = <<[value |-> 25, probability |-> 500],
                          [value |-> 75, probability |-> 500]>>
    /\ sampled.r = 500
    /\ sampled.value = [n |-> 25, d |-> 1]

\* C5: when that point i is not the first and r is strictly below its
\* cumulative probability, the result is
\* prev_value + ((r - prev_cum) / (cum_i - prev_cum)) * (value_i - prev_value).
C5_InterpolationFormula ==
    (sampled.done /\ HitsInput # {} /\ FirstHit > 1
     /\ sampled.r < CumInput[FirstHit]) =>
        LET prev_value == SortedInput[FirstHit - 1].value
            prev_cum == CumInput[FirstHit - 1]
            width == CumInput[FirstHit] - prev_cum
        IN  /\ ~sampled.raised
            /\ width > 0
            /\ sampled.value.n * width
                 = sampled.value.d
                   * (prev_value * width
                      + (sampled.r - prev_cum)
                        * (SortedInput[FirstHit].value - prev_value))

C5_Witness ==
    /\ sampled.done /\ HitsInput # {} /\ FirstHit > 1
    /\ sampled.r = 750 /\ CumInput[FirstHit] = 1000 /\ CumInput[FirstHit - 1] = 500
    /\ SortedInput[FirstHit - 1].value = 25 /\ SortedInput[FirstHit].value = 75
    /\ sampled.value = [n |-> 50, d |-> 1]

\* C6: when r exceeds the final cumulative probability, the sampler returns
\* the value of the last point in value-sorted order and does not raise.
C6_PastFinalCumulativeReturnsLast ==
    (sampled.done /\ sampled.r > CumInput[Len(SortedInput)]) =>
        /\ ~sampled.raised
        /\ sampled.value = [n |-> SortedInput[Len(SortedInput)].value, d |-> 1]

\* The same, for the distributions whose point probabilities are all >= 0.
C6_PastFinalCumulativeNonNegative ==
    (sampled.done /\ sampled.r > CumInput[Len(SortedInput)]
     /\ \A i \in 1..Len(d_input.points) : d_input.points[i].probability >= 0) =>
        /\ ~sampled.raised
        /\ sampled.value = [n |-> SortedInput[Len(SortedInput)].value, d |-> 1]

\* C22: DistributionData(range, points) is rejected, and no object is built,
\* whenever the range does not have exactly two values with min < max, the
\* point list is empty, a point value lies outside [min, max], or the
\* probabilities sum outside [0.99, 1.01]; in every other case it is built.
C22_RejectedExactlyWhenInvalid ==
    (d_object.built \/ d_object.rejected) =>
        LET range == d_input.range
            points == d_input.points
            total == SumProbability(points, Len(points))
            invalid ==
                \/ Len(range) # 2
                \/ ~(range[1] < range[2])
                \/ points = <<>>
                \/ \E i \in 1..Len(points) :
                       points[i].value < range[1] \/ points[i].value > range[2]
                \/ 100 * total < 99 * ProbScale
                \/ 100 * total > 101 * ProbScale
        IN  /\ d_object.rejected <=> invalid
            /\ d_object.built <=> ~invalid
            /\ ~(d_object.built /\ d_object.rejected)

\* Two points inside the range whose probabilities sum to 0.98 are rejected.
C22_Witness ==
    /\ d_object.rejected /\ ~d_object.built
    /\ d_input.range = <<0, 100>>
    /\ d_input.points = <<[value |-> 25, probability |-> 490],
                          [value |-> 75, probability |-> 490]>>

\* A point below the range minimum has been rejected.
C22_PointOutsideRejected ==
    /\ d_object.rejected
    /\ d_input.range = <<30, 100>>
    /\ d_input.points = <<[value |-> 25, probability |-> 1000]>>

\* A list whose probabilities sum to 0.99 has been built.
C22_SumAtLowerBoundBuilt ==
    /\ d_object.built
    /\ d_input.points = <<[value |-> 25, probability |-> 490],
                          [value |-> 75, probability |-> 500]>>

\* C25: on every validated distribution, zero-probability points included,
\* and every r of [0, 1), the sampler does not divide by zero, and its
\* un-rounded result lies between the smallest and the largest point value,
\* hence inside the declared range.
C25_NoDivisionByZeroAndWithinPoints ==
    sampled.done =>
        LET n == Len(SortedInput)
            x == sampled.value
        IN  /\ ~sampled.raised
            /\ SortedInput[1].value * x.d <= x.n
            /\ x.n <= SortedInput[n].value * x.d
            /\ d_input.range[1] * x.d <= x.n
            /\ x.n <= d_input.range[2] * x.d

\* A draw of 0.5 falls in the segment that ends at a point of probability 1
\* and starts at a point of probability 0: the result is half way between.
C25_Witness ==
    /\ sampled.done /\ ~sampled.raised
    /\ d_input.points = <<[value |-> 75, probability |-> 1000],
                          [value |-> 25, probability |-> 0]>>
    /\ sampled.r = 500
    /\ sampled.value = [n |-> 50, d |-> 1]

\* The lists that hold the same points as `points`, in every order.
Reorderings(points) ==
    {[i \in 1..Len(points) |-> points[f[i]]] :
        f \in {g \in [1..Len(points) -> 1..Len(points)] :
                  \A i, j \in 1..Len(points) : g[i] = g[j] => i = j}}

\* C26: the sampler's result for a given r does not depend on the order in
\* which the points are listed: every permutation of the same (value,
\* probability) points, points sharing a value included, gives the same value.
C26_PointOrderIndependent ==
    sampled.done =>
        \A points \in Reorderings(d_input.points) :
            \E out \in {sample_value([d_input EXCEPT !.points = points], sampled.r)} :
                /\ out.raised = sampled.raised
                /\ out.value = sampled.value

\* The same for the lists whose points have values different from each other.
C26_DistinctValuesOrderIndependent ==
    (sampled.done
     /\ \A i, j \in 1..Len(d_input.points) :
            d_input.points[i].value = d_input.points[j].value => i = j) =>
        \A points \in Reorderings(d_input.points) :
            \E out \in {sample_value([d_input EXCEPT !.points = points], sampled.r)} :
                /\ out.raised = sampled.raised
                /\ out.value = sampled.value

\* Two points of value 75, of probabilities 0.25 and 0.5: r = 0.4 gives 55
\* with the one of 0.25 listed first and 40 with the other first.
C26_SharedValueOrderMatters ==
    /\ sampled.done
    /\ d_input.points = <<[value |-> 25, probability |-> 250],
                          [value |-> 75, probability |-> 250],
                          [value |-> 75, probability |-> 500]>>
    /\ sampled.r = 400
    /\ sampled.value = [n |-> 55, d |-> 1]
    /\ sample_value([d_input EXCEPT
                         !.points = <<[value |-> 25, probability |-> 250],
                                      [value |-> 75, probability |-> 500],
                                      [value |-> 75, probability |-> 250]>>],
                    400).value = [n |-> 40, d |-> 1]

\* Two points listed with the larger value first have been sampled from.
C26_UnsortedSampled ==
    /\ sampled.done
    /\ d_input.points = <<[value |-> 75, probability |-> 500],
                          [value |-> 25, probability |-> 500]>>
    /\ sampled.r = 750
    /\ sampled.value = [n |-> 50, d |-> 1]

\* The fraction x is at most the fraction y.
AtMost(x, y) == x.n * y.d <= y.n * x.d

\* The cumulative probabilities never fall, and no smaller draw gives a larger
\* value than the draw made.
CumulativeAndValueNonDecreasing ==
    /\ \A i \in 1..(Len(CumInput) - 1) : CumInput[i] <= CumInput[i + 1]
    /\ sampled.done =>
           \A r \in Draws :
               r < sampled.r => AtMost(sample_value(d_input, r).value, sampled.value)

\* C28: every DistributionData that passes validation has each point
\* probability in [0, 1], so the cumulative probabilities over the sorted
\* points are non-decreasing and the sampled value is a non-decreasing
\* function of r.
C28_ProbabilitiesInUnitInterval ==
    d_object.built =>
        /\ \A i \in 1..Len(d_input.points) :
               /\ d_input.points[i].probability >= 0
               /\ d_input.points[i].probability <= ProbScale
        /\ CumulativeAndValueNonDecreasing

\* What does hold: when no point probability is negative, the cumulative
\* probabilities and the sampled value are non-decreasing.
C28_NonNegativeIsMonotone ==
    (d_object.built
     /\ \A i \in 1..Len(d_input.points) : d_input.points[i].probability >= 0) =>
        CumulativeAndValueNonDecreasing

\* The sampled value is a non-decreasing function of r whatever the
\* probabilities: the first point whose cumulative probability reaches r is
\* never an earlier one for a larger r.
C28_SampledValueNonDecreasing ==
    sampled.done =>
        \A r \in Draws :
            r < sampled.r => AtMost(sample_value(d_input, r).value, sampled.value)

\* Validation has let through the probabilities 1.24 and -0.25, whose
\* cumulative sums fall from 1.24 to 0.99.
C28_NegativeProbabilityBuilt ==
    /\ d_object.built /\ sampled.done
    /\ d_input.points = <<[value |-> 25, probability |-> 1240],
                          [value |-> 75, probability |-> -250]>>
    /\ CumInput = <<1240, 990>>

\* A draw of 0 on a distribution whose first sorted point has probability 0.
C25_ZeroDrawZeroProbability ==
    /\ sampled.done /\ ~sampled.raised
    /\ SortedInput[1].probability = 0
    /\ Len(SortedInput) = 3 /\ SortedInput[2].probability = 0
    /\ sampled.r = 0
    /\ sampled.value = [n |-> 25, d |-> 1]

----------------------------------------------------------------------------
(* Agent generation: runs that each construct a DeterministicRandom from a *)
(* seed and call generate_agent_characteristics on it                      *)

\* Most calls of generate_agent_characteristics on one generator.
MaxCalls == 2

Runs == {1, 2}
Seeds == {"fixed_seed", "test_seed_1", "test_seed_2"}

P(v, p) == [value |-> v, probability |-> p]
Cat(c, p) == [category |-> c, probability |-> p]

\* create_example_demographic() of the tests, and for four traits a second
\* distribution whose range does not end on the trait's increment.
AgeDistributions ==
    {[range |-> <<180, 800>>,
      points |-> <<P(200, 200), P(300, 300), P(400, 300), P(600, 200)>>],
     [range |-> <<185, 800>>, points |-> <<P(185, 500), P(600, 500)>>]}
IncomeDistributions ==
    {[range |-> <<2000, 20000>>,
      points |-> <<P(3000, 300), P(6000, 400), P(10000, 200), P(15000, 100)>>],
     [range |-> <<2005, 20000>>, points |-> <<P(2005, 300), P(6000, 700)>>]}
EducationDistributions ==
    {[range |-> <<80, 220>>, points |-> <<P(120, 400), P(160, 400), P(200, 200)>>]}
ReligiosityDistributions ==
    {[range |-> <<0, 100>>, points |-> <<P(20, 300), P(50, 400), P(80, 300)>>],
     [range |-> <<2, 100>>, points |-> <<P(98, 500), P(2, 500)>>]}
EconomicDistributions ==
    {[range |-> <<-100, 100>>, points |-> <<P(-50, 300), P(0, 400), P(50, 300)>>],
     [range |-> <<-98, 98>>, points |-> <<P(-98, 500), P(98, 500)>>]}
GovernanceDistributions ==
    {[range |-> <<-100, 100>>,
      points |-> <<P(-70, 200), P(-20, 300), P(30, 300), P(80, 200)>>]}
CulturalDistributions ==
    {[range |-> <<-100, 100>>,
      points |-> <<P(-80, 250), P(-30, 250), P(30, 250), P(80, 250)>>]}

\* The genders of the example, and ones that sum to 0.99.
GenderDistributions ==
    {<<Cat("male", 480), Cat("female", 480), Cat("nonbinary", 40)>>,
     <<Cat("male", 480), Cat("female", 480), Cat("nonbinary", 30)>>}

CandidateDemographics ==
    {[numerical |->
          [age |-> a, income_level |-> inc, years_of_education |-> edu,
           religiosity |-> rel,
           political_affiliation |->
               [economic |-> eco, governance |-> gov, cultural |-> cul]],
      categorical |->
          [race_ethnicity |-> <<Cat("white", 600), Cat("black", 150),
                                Cat("hispanic", 150), Cat("east asian", 100)>>,
           gender |-> gen,
           religion |-> <<Cat("christian", 650), Cat("jewish", 50), Cat("muslim", 50),
                          Cat("hindu", 50), Cat("buddhist", 50), Cat("other", 150)>>,
           urbanization |-> <<Cat("urban", 400), Cat("suburban", 400),
                              Cat("rural", 200)>>,
           education_style |-> <<Cat("formal k-12", 300),
                                 Cat("formal k-12 + university", 500),
                                 Cat("vocational", 200)>>,
           employment_style |-> <<Cat("white-collar", 400), Cat("blue-collar", 300),
                                  Cat("entrepreneur", 100), Cat("unemployed", 100),
                                  Cat("retired", 100)>>,
           location |-> "New York"]] :
        a \in AgeDistributions, inc \in IncomeDistributions,
        edu \in EducationDistributions, rel \in ReligiosityDistributions,
        eco \in EconomicDistributions, gov \in GovernanceDistributions,
        cul \in CulturalDistributions, gen \in GenderDistributions}

\* The demographics the validation of schemas.py lets through.
Demographics == {d \in CandidateDemographics : DemographicDistribution(d)}

\* DeterministicRandom(seed) in run
NewRandom(run) ==
    /\ ~gen_rngs[run].made
    /\ gen_rngs' = [gen_rngs EXCEPT
                        ![run] = [made |-> TRUE,
                                  state |-> DeterministicRandom(gen_seeds[run])]]
    /\ instances' = instances + 1
    /\ UNCHANGED <<gen_demographic, gen_seeds, gen_agents>>
    /\ UNCHANGED notGenerationVars

\* generate_agent_characteristics(demographic, random) in run, on its generator
Generate(run) ==
    /\ gen_rngs[run].made
    /\ Len(gen_agents[run]) < MaxCalls
    /\ \E out \in {generate_agent_characteristics(gen_demographic, gen_rngs[run].state)} :
           /\ gen_agents' =
                  [gen_agents EXCEPT
                       ![run] = Append(@, [raised |-> out.raised,
                                           numerical |-> out.numerical,
                                           categorical |-> out.categorical,
                                           before |-> gen_rngs[run].state])]
           /\ gen_rngs' = [gen_rngs EXCEPT ![run].state = out.random]
    /\ UNCHANGED <<gen_demographic, gen_seeds, instances>>
    /\ UNCHANGED notGenerationVars

GenerationInit ==
    /\ SamplerIdle /\ MeanIdle /\ BulkIdle /\ SummaryIdle
    /\ MultiIdle /\ AgentsIdle /\ WorkersIdle /\ SchemasIdle /\ CrudIdle
    /\ gen_demographic \in Demographics
    /\ gen_seeds \in [Runs -> Seeds]
    /\ gen_rngs = [run \in Runs |-> [made |-> FALSE, state |-> 0]]
    /\ gen_agents = [run \in Runs |-> <<>>]
    /\ instances = 0

GenerationNext ==
    \/ \E run \in Runs : NewRandom(run)
    \/ \E run \in Runs : Generate(run)

SpecGeneration == GenerationInit /\ [][GenerationNext]_vars

----------------------------------------------------------------------------
(* Claims on agent generation (SpecGeneration)                             *)

\* The agents generated so far, each with the run that generated it.
Generated ==
    {<<run, k>> : run \in Runs, k \in 1..MaxCalls} \cap
    {c \in Runs \X (1..MaxCalls) : c[2] <= Len(gen_agents[c[1]])}
AgentOf(c) == gen_agents[c[1]][c[2]]

InRange(x, distribution) ==
    /\ x.n >= distribution.range[1] * x.d
    /\ x.n <= distribution.range[2] * x.d

\* C2: each numeric field of a generated agent, as stored after quantization,
\* lies within the declared range of the distribution it was sampled from.
C2_StoredFieldsWithinDeclaredRange ==
    \A c \in Generated :
        ~AgentOf(c).raised =>
            LET n == AgentOf(c).numerical
                d == gen_demographic.numerical
            IN  /\ InRange(n.age, d.age)
                /\ InRange(n.income_level, d.income_level)
                /\ InRange(n.years_of_education, d.years_of_education)
                /\ InRange(n.religiosity, d.religiosity)
                /\ InRange(n.economic, d.political_affiliation.economic)
                /\ InRange(n.governance, d.political_affiliation.governance)
                /\ InRange(n.cultural, d.political_affiliation.cultural)

IsMultiple(x, nearest) == x.d = 1 /\ x.n % nearest = 0

\* The draw the third sample_from_distribution call of an agent consumed.
ThirdDraw(before) ==
    rng_random(rng_random(rng_random(before).next).next).r

\* C3: age is a whole number, income_level a multiple of 100, religiosity a
\* multiple of 0.5, each political dimension a multiple of 0.05, and
\* years_of_education is the raw sampled value, not rounded.
C3_Quantization ==
    \A c \in Generated :
        ~AgentOf(c).raised =>
            LET n == AgentOf(c).numerical IN
            /\ IsMultiple(n.age, 10)
            /\ IsMultiple(n.income_level, 10)
            /\ IsMultiple(n.religiosity, 5)
            /\ IsMultiple(n.economic, 5)
            /\ IsMultiple(n.governance, 5)
            /\ IsMultiple(n.cultural, 5)
            /\ n.years_of_education
                 = sample_value(gen_demographic.numerical.years_of_education,
                                ThirdDraw(AgentOf(c).before)).value

C3_Witness ==
    \E c \in Generated :
        /\ ~AgentOf(c).raised
        /\ ~IsMultiple(AgentOf(c).numerical.years_of_education, 10)
        /\ IsMultiple(AgentOf(c).numerical.income_level, 10)
        /\ IsMultiple(AgentOf(c).numerical.economic, 5)

\* The state of a generator after k draws.
RECURSIVE advance(_, _)
advance(state, k) == IF k = 0 THEN state ELSE advance(rng_random(state).next, k - 1)

\* The state an agent's call left its generator in.
After(c) ==
    IF c[2] < Len(gen_agents[c[1]]) THEN gen_agents[c[1]][c[2] + 1].before
    ELSE gen_rngs[c[1]].state

\* What the k-th draw after `before` makes of a numeric distribution, and of a
\* categorical one.
NumericAt(distribution, before, k) ==
    sample_value(distribution, rng_random(advance(before, k - 1)).r).value
CategoryAt(distribution, before, k) ==
    rng_choice([i \in 1..Len(distribution) |-> distribution[i].category],
               distribution, advance(before, k - 1)).value

\* The fields of an agent are those of the 13 draws in the order of the traits,
\* and location is the specification's.
FieldsInDrawOrder(agent) ==
    LET n == gen_demographic.numerical
        c == gen_demographic.categorical
        b == agent.before
    IN  /\ agent.numerical.age = round_to_nearest(NumericAt(n.age, b, 1), Nearest.age)
        /\ agent.numerical.income_level
               = round_to_nearest(NumericAt(n.income_level, b, 2), Nearest.income_level)
        /\ agent.numerical.years_of_education = NumericAt(n.years_of_education, b, 3)
        /\ agent.numerical.religiosity
               = round_to_nearest(NumericAt(n.religiosity, b, 4), Nearest.religiosity)
        /\ agent.numerical.economic
               = round_to_nearest(NumericAt(n.political_affiliation.economic, b, 5),
                                  Nearest.political)
        /\ agent.numerical.governance
               = round_to_nearest(NumericAt(n.political_affiliation.governance, b, 6),
                                  Nearest.political)
        /\ agent.numerical.cultural
               = round_to_nearest(NumericAt(n.political_affiliation.cultural, b, 7),
                                  Nearest.political)
        /\ agent.categorical.race_ethnicity = CategoryAt(c.race_ethnicity, b, 8)
        /\ agent.categorical.gender = CategoryAt(c.gender, b, 9)
        /\ agent.categorical.religion = CategoryAt(c.religion, b, 10)
        /\ agent.categorical.urbanization = CategoryAt(c.urbanization, b, 11)
        /\ agent.categorical.education_style = CategoryAt(c.education_style, b, 12)
        /\ agent.categorical.employment_style = CategoryAt(c.employment_style, b, 13)
        /\ agent.categorical.location = c.location

\* C20: one call of generate_agent_characteristics advances the generator by
\* exactly 13 draws, one per trait in the order age, income_level,
\* years_of_education, religiosity, economic, governance, cultural,
\* race_ethnicity, gender, religion, urbanization, education_style,
\* employment_style; location takes no draw and is the specification's.
C20_ThirteenDrawsInTraitOrder ==
    \A c \in Generated :
        /\ After(c) = advance(AgentOf(c).before, 13)
        /\ ~AgentOf(c).raised
        /\ FieldsInDrawOrder(AgentOf(c))

\* A call that returns has made the 13 draws in the order of the traits.
C20_ReturnedCallThirteenDraws ==
    \A c \in Generated :
        ~AgentOf(c).raised =>
            /\ After(c) = advance(AgentOf(c).before, 13)
            /\ FieldsInDrawOrder(AgentOf(c))

\* A call that raises at gender has made the 8 draws of the traits before it.
C20_RaisedCallEightDraws ==
    \A c \in Generated :
        AgentOf(c).raised => After(c) = advance(AgentOf(c).before, 8)

C20_SecondCallReturned ==
    \E run \in Runs :
        /\ Len(gen_agents[run]) = 2
        /\ ~gen_agents[run][2].raised
        /\ gen_agents[run][2].before = advance(gen_agents[run][1].before, 13)
        /\ gen_agents[run][2].numerical # gen_agents[run][1].numerical

\* The labels listed in a categorical distribution.
Listed(distribution) == {distribution[i].category : i \in 1..Len(distribution)}

\* What the six sample_from_categorical calls of an agent's call answer, on the
\* generator as the seven numeric draws left it.
CategoricalCalls(agent) ==
    choose_in_order(categorical_order(gen_demographic.categorical),
                    advance(agent.before, 7), <<>>)

\* C21: on every categorical distribution the validation accepts, the seeded
\* categorical sampler returns one of the labels listed without raising, also
\* when the probabilities do not sum to exactly 1.
C21_CategoricalSamplerReturnsListedLabel ==
    \A c \in Generated :
        \E out \in {CategoricalCalls(AgentOf(c))} :
            /\ ~out.raised
            /\ \A k \in 1..Len(out.values) :
                   out.values[k]
                       \in Listed(categorical_order(gen_demographic.categorical)[k])

\* The sampler returns a listed label exactly when the probabilities sum to 1,
\* and raises on the first distribution whose sum is not 1: the labels of the
\* distributions before it are returned, its own is not.
C21_ReturnsExactlyWhenSumIsOne ==
    \A c \in Generated :
        \E out \in {CategoricalCalls(AgentOf(c))} :
            LET order == categorical_order(gen_demographic.categorical)
                inexact == {k \in 1..Len(order) :
                               SumProbability(order[k], Len(order[k])) # ProbScale}
            IN  /\ out.raised <=> inexact # {}
                /\ out.raised = AgentOf(c).raised
                /\ out.raised => Len(out.values) = Min(inexact) - 1
                /\ \A k \in 1..Len(out.values) : out.values[k] \in Listed(order[k])

\* A gender distribution summing to 0.99 has been sampled from.
C21_InexactSumSampled ==
    \E c \in Generated :
        /\ SumProbability(gen_demographic.categorical.gender, 3) = 990
        /\ AgentOf(c).raised
        /\ Len(CategoricalCalls(AgentOf(c)).values) = 1

----------------------------------------------------------------------------
(* The sample mean of the tests: generate_agents(demographic, 500) of      *)
(* tests/test_agent_summary_comparison.py, whose i-th agent is generated   *)
(* on its own generator; the generators' first draws are spread evenly     *)
(* over [0, 1)                                                             *)

\* num_agents of test_agent_generation_matches_summary
TestAgents == 500

ExampleDemographic ==
    CHOOSE d \in Demographics :
        /\ d.numerical.age.range = <<180, 800>>
        /\ d.numerical.income_level.range = <<2000, 20000>>
        /\ d.numerical.religiosity.range = <<0, 100>>
        /\ d.numerical.political_affiliation.economic.range = <<-100, 100>>
        /\ SumProbability(d.categorical.gender, 3) = ProbScale

\* The state of DeterministicRandom(f"test_seed_{i}").rng
test_seed_state(i) == (i * ProbScale) \div TestAgents

\* One turn of the loop of generate_agents, and analyze_agents' sum for the mean.
GenerateTestAgent ==
    /\ mean_count < TestAgents
    /\ \E out \in {generate_agent_characteristics(ExampleDemographic,
                                                  test_seed_state(mean_count))} :
           /\ ~out.raised
           /\ mean_total' = mean_total + out.numerical.age.n
    /\ mean_count' = mean_count + 1
    /\ UNCHANGED notMeanVars

MeanInit == SamplerIdle /\ GenerationIdle /\ MeanIdle /\ BulkIdle /\ SummaryIdle
    /\ MultiIdle /\ AgentsIdle /\ WorkersIdle /\ SchemasIdle /\ CrudIdle

MeanNext == GenerateTestAgent

SpecMean == MeanInit /\ [][MeanNext]_vars

\* sum(p.value * p.probability for p in age_points), times ProbScale
WeightedMean(points) ==
    LET RECURSIVE acc(_)
        acc(k) == IF k = 0 THEN 0
                  ELSE acc(k - 1) + points[k].value * points[k].probability
    IN  acc(Len(points))

C7_SampleMeanIs32 ==
    mean_count = TestAgents => Abs(mean_total - 320 * mean_count) <= mean_count

----------------------------------------------------------------------------
(* The bulk samplers on every distribution the validation lets through     *)

\* Largest num_samples tried.
MaxSamples == 4

ValidDistributions ==
    {d \in [range : Ranges, points : PointLists] : DistributionData(d.range, d.points)}

\* The numeric distributions sampled in bulk: those, and the ones of the
\* example demographic.
BulkDistributions ==
    ValidDistributions
    \cup {d \in AgeDistributions \cup IncomeDistributions \cup EducationDistributions
                \cup ReligiosityDistributions \cup EconomicDistributions
                \cup GovernanceDistributions \cup CulturalDistributions :
              DistributionData(d.range, d.points)}

CategoricalEntries == [category : {"male", "female"}, probability : {0, 250, 490, 500, 1000}]
ValidCategoricals ==
    {c \in UNION {[1..n -> CategoricalEntries] : n \in 1..MaxPoints} :
        validate_categorical(c, Gender)}

\* population_summary.sample_from_distribution(distribution, num_samples)
BulkSampleNumeric(distribution, num_samples) ==
    /\ ~bulk_output.done
    /\ bulk_input' = [kind |-> "numeric", distribution |-> distribution.points,
                      num_samples |-> num_samples]
    /\ bulk_output' =
           [done |-> TRUE,
            values |-> summary_sample_from_distribution(distribution, num_samples)]
    /\ UNCHANGED notBulkVars

\* population_summary.sample_from_categorical(distribution, num_samples)
BulkSampleCategorical(distribution, num_samples) ==
    /\ ~bulk_output.done
    /\ bulk_input' = [kind |-> "categorical", distribution |-> distribution,
                      num_samples |-> num_samples]
    /\ bulk_output' =
           [done |-> TRUE,
            values |-> summary_sample_from_categorical(distribution, num_samples)]
    /\ UNCHANGED notBulkVars

BulkInit == SamplerIdle /\ GenerationIdle /\ MeanIdle /\ BulkIdle /\ SummaryIdle
    /\ MultiIdle /\ AgentsIdle /\ WorkersIdle /\ SchemasIdle /\ CrudIdle

BulkNext ==
    \/ /\ ~bulk_output.done
       /\ \E d \in BulkDistributions, n \in 0..MaxSamples : BulkSampleNumeric(d, n)
    \/ /\ ~bulk_output.done
       /\ \E c \in ValidCategoricals, n \in 0..MaxSamples : BulkSampleCategorical(c, n)

SpecBulk == BulkInit /\ [][BulkNext]_vars

----------------------------------------------------------------------------
(* Claims on the bulk samplers (SpecBulk)                                  *)

BulkItem(i) ==
    IF bulk_input.kind = "numeric" THEN bulk_input.distribution[i].value
    ELSE bulk_input.distribution[i].category

\* How many copies the points before point i, and point i, are allocated.
RECURSIVE AllocatedUpTo(_)
AllocatedUpTo(i) ==
    IF i = 0 THEN 0
    ELSE LET count == PyRound(bulk_input.distribution[i].probability
                              * bulk_input.num_samples, ProbScale)
         IN  AllocatedUpTo(i - 1) + (IF count > 0 THEN count ELSE 0)

\* C8: the bulk samplers return a list of exactly N values.
C8_BulkReturnsExactlyN ==
    bulk_output.done => Len(bulk_output.values) = bulk_input.num_samples

C8_Witness ==
    /\ bulk_output.done
    /\ bulk_input.num_samples = 3
    /\ Len(bulk_output.values) = 3
    /\ AllocatedUpTo(Len(bulk_input.distribution)) # 3

\* C9: the output is the first N elements of round(p_i * N) copies of each
\* point's value in the order of the points, followed, when these are fewer
\* than N, by copies of the value of the first point of highest probability.
C9_BulkOutputShape ==
    bulk_output.done =>
        \A j \in 1..Len(bulk_output.values) :
            LET n == Len(bulk_input.distribution)
                owners == {i \in 1..n : AllocatedUpTo(i - 1) < j /\ j <= AllocatedUpTo(i)}
                highest == {i \in 1..n :
                               \A k \in 1..n :
                                   bulk_input.distribution[k].probability
                                       <= bulk_input.distribution[i].probability}
            IN  IF j <= AllocatedUpTo(n)
                THEN \E i \in owners : bulk_output.values[j] = BulkItem(i)
                ELSE bulk_output.values[j] = BulkItem(Min(highest))

C9_Witness ==
    /\ bulk_output.done
    /\ bulk_input.kind = "numeric"
    /\ bulk_input.distribution = <<[value |-> 75, probability |-> 500],
                                   [value |-> 25, probability |-> 500]>>
    /\ bulk_input.num_samples = 1
    /\ bulk_output.values = <<75>>

\* How many times the value of point i is in the output.
TimesInOutput(i) ==
    Cardinality({j \in 1..Len(bulk_output.values) : bulk_output.values[j] = BulkItem(i)})

DistinctItems ==
    \A i, j \in 1..Len(bulk_input.distribution) : BulkItem(i) = BulkItem(j) => i = j

\* C27: for a valid distribution with distinct point values whose
\* probabilities sum to exactly 1 and any N >= 1, the output holds each point's
\* value a number of times that differs from probability * N by at most 1.
C27_CountsWithinOneOfExpected ==
    (/\ bulk_output.done
     /\ bulk_input.num_samples >= 1
     /\ DistinctItems
     /\ SumProbability(bulk_input.distribution, Len(bulk_input.distribution))
            = ProbScale) =>
        \A i \in 1..Len(bulk_input.distribution) :
            Abs(TimesInOutput(i) * ProbScale
                - bulk_input.distribution[i].probability * bulk_input.num_samples)
                <= ProbScale

\* The same for the distributions of at most three points.
C27_UpToThreePointsWithinOne ==
    (/\ bulk_output.done
     /\ bulk_input.num_samples >= 1
     /\ DistinctItems
     /\ Len(bulk_input.distribution) <= 3
     /\ SumProbability(bulk_input.distribution, Len(bulk_input.distribution))
            = ProbScale) =>
        \A i \in 1..Len(bulk_input.distribution) :
            Abs(TimesInOutput(i) * ProbScale
                - bulk_input.distribution[i].probability * bulk_input.num_samples)
                <= ProbScale

\* The example's cultural distribution, four points of probability 0.25, and
\* N = 2: every allocation rounds to 0 and both samples are the first point's.
C27_FourQuartersTwoSamples ==
    /\ bulk_output.done
    /\ bulk_input.kind = "numeric"
    /\ bulk_input.distribution = <<P(-80, 250), P(-30, 250), P(30, 250), P(80, 250)>>
    /\ bulk_input.num_samples = 2
    /\ bulk_output.values = <<-80, -80>>

----------------------------------------------------------------------------
(* summarize_population on the demographics of the catalogue               *)

\* Largest num_agents and num_buckets tried.
MaxAgents == 4
MaxBuckets == 3

\* A population of one kind: every trait has a single point of probability 1.
SinglePointDemographic ==
    [numerical |->
         [age |-> [range |-> <<180, 800>>, points |-> <<P(400, 1000)>>],
          income_level |-> [range |-> <<2000, 20000>>, points |-> <<P(6000, 1000)>>],
          years_of_education |-> [range |-> <<80, 220>>, points |-> <<P(160, 1000)>>],
          religiosity |-> [range |-> <<0, 100>>, points |-> <<P(50, 1000)>>],
          political_affiliation |->
              [economic |-> [range |-> <<-100, 100>>, points |-> <<P(0, 1000)>>],
               governance |-> [range |-> <<-100, 100>>, points |-> <<P(30, 1000)>>],
               cultural |-> [range |-> <<-100, 100>>, points |-> <<P(0, 1000)>>]]],
     categorical |->
         [race_ethnicity |-> <<Cat("white", 1000)>>, gender |-> <<Cat("female", 1000)>>,
          religion |-> <<Cat("other", 1000)>>, urbanization |-> <<Cat("urban", 1000)>>,
          education_style |-> <<Cat("vocational", 1000)>>,
          employment_style |-> <<Cat("retired", 1000)>>,
          location |-> "New York"]]

\* The example with one agent in each political quadrant, whose means over
\* two of them lie at the centre and on the thresholds 0.2 and -0.2.
QuadrantDemographic ==
    [ExampleDemographic EXCEPT
         !.numerical.political_affiliation.economic =
             [range |-> <<-100, 100>>,
              points |-> <<P(-50, 250), P(50, 250), P(-60, 250), P(90, 250)>>],
         !.numerical.political_affiliation.cultural =
             [range |-> <<-100, 100>>,
              points |-> <<P(-50, 250), P(50, 250), P(60, 250), P(-90, 250)>>]]

\* The demographics summarised: the example and its off-increment variants of
\* age and of the economic dimension, and the two above.
SummaryDemographics ==
    {d \in Demographics :
        /\ d.numerical.income_level.range = <<2000, 20000>>
        /\ d.numerical.religiosity.range = <<0, 100>>}
    \cup {d \in {SinglePointDemographic, QuadrantDemographic} :
              DemographicDistribution(d)}

\* What summarize_population returns on the agents generated, given the labels
\* fit_predict answered.
PopulationBuckets(synthetic_agents, num_agents, labels) ==
    [done |-> TRUE, raised |-> FALSE, total_agents |-> num_agents,
     profiles |-> create_representative_profiles(synthetic_agents, labels)]

\* summarize_population(characteristics, num_agents, num_buckets)
Summarize(characteristics, num_agents, num_buckets) ==
    /\ ~summary_output.done
    /\ summary_input' = [characteristics |-> characteristics,
                         num_agents |-> num_agents, num_buckets |-> num_buckets]
    /\ \E synthetic_agents \in {generate_synthetic_agents(characteristics, num_agents)} :
           /\ summary_agents' = synthetic_agents
           /\ IF kmeans_raises(synthetic_agents, num_buckets)
              THEN /\ summary_output' = [NoSummary EXCEPT !.done = TRUE, !.raised = TRUE]
                   /\ summary_fit' = summary_fit
              ELSE \E labels \in fit_predict(synthetic_agents, num_buckets, summary_fit) :
                       /\ summary_output' =
                              PopulationBuckets(synthetic_agents, num_agents, labels)
                       /\ summary_fit' =
                              [called |-> TRUE, agents |-> synthetic_agents,
                               num_profiles |-> num_buckets, labels |-> labels]
    /\ UNCHANGED summary_repeat
    /\ UNCHANGED notSummaryVars

\* The same call made a second time, with the same arguments.
SummarizeAgain ==
    /\ summary_output.done
    /\ ~summary_repeat.done
    /\ \E synthetic_agents \in {generate_synthetic_agents(summary_input.characteristics,
                                                          summary_input.num_agents)} :
           IF kmeans_raises(synthetic_agents, summary_input.num_buckets)
           THEN summary_repeat' = [NoSummary EXCEPT !.done = TRUE, !.raised = TRUE]
           ELSE \E labels \in fit_predict(synthetic_agents, summary_input.num_buckets,
                                          summary_fit) :
                    summary_repeat' =
                        PopulationBuckets(synthetic_agents, summary_input.num_agents,
                                          labels)
    /\ UNCHANGED <<summary_input, summary_agents, summary_output, summary_fit>>
    /\ UNCHANGED notSummaryVars

SummaryInit == SamplerIdle /\ GenerationIdle /\ MeanIdle /\ BulkIdle /\ SummaryIdle
    /\ MultiIdle /\ AgentsIdle /\ WorkersIdle /\ SchemasIdle /\ CrudIdle

FirstSummary ==
    /\ ~summary_output.done
    /\ \E d \in SummaryDemographics, n \in 0..MaxAgents, k \in 0..MaxBuckets :
           Summarize(d, n, k)

SummaryNext == FirstSummary \/ SummarizeAgain

SpecSummary == SummaryInit /\ [][SummaryNext]_vars

----------------------------------------------------------------------------
(* Claims on the summary (SpecSummary)                                     *)

RECURSIVE CountSum(_, _)
CountSum(profiles, k) ==
    IF k = 0 THEN 0 ELSE CountSum(profiles, k - 1) + profiles[k].count

\* C10: every synthetic agent is counted in exactly one returned profile: the
\* counts of the profiles sum to N, which is PopulationBuckets.total_agents.
C10_ProfileCountsSumToN ==
    (summary_output.done /\ ~summary_output.raised) =>
        /\ CountSum(summary_output.profiles, Len(summary_output.profiles))
               = summary_input.num_agents
        /\ summary_output.total_agents = summary_input.num_agents
        /\ Len(summary_agents) = summary_input.num_agents

C10_Witness ==
    /\ summary_output.done /\ ~summary_output.raised
    /\ summary_input.num_agents = 4
    /\ Len(summary_output.profiles) = 3
    /\ summary_output.profiles[1].count = 2
    /\ CountSum(summary_output.profiles, 3) = 4

C12_ProfilesSortedByCountDescending ==
    (summary_output.done /\ ~summary_output.raised) =>
        \A i \in 1..(Len(summary_output.profiles) - 1) :
            summary_output.profiles[i].count >= summary_output.profiles[i + 1].count

\* The cluster the loop met first, the first agent's, is the smaller one, and
\* its profile comes second.
C12_Witness ==
    /\ summary_output.done /\ ~summary_output.raised
    /\ Len(summary_output.profiles) = 2
    /\ summary_output.profiles[1].count = 3
    /\ summary_output.profiles[2].count = 1
    /\ summary_output.profiles[2].age_range
           = <<summary_agents[1].age, summary_agents[1].age>>
    /\ summary_output.profiles[1].age_range[1] > summary_agents[1].age

\* C13: when the number of clusters asked for exceeds the number of agents,
\* or a cluster stays empty, nothing is raised: the empty clusters are left
\* out and fewer than k profiles are returned.
C13_MoreClustersThanAgentsNoError ==
    (summary_output.done /\ summary_input.num_buckets >= 1) =>
        /\ summary_input.num_buckets > summary_input.num_agents =>
               /\ ~summary_output.raised
               /\ Len(summary_output.profiles) < summary_input.num_buckets
        /\ ~summary_output.raised =>
               /\ Len(summary_output.profiles) <= summary_input.num_buckets
               /\ \A i \in 1..Len(summary_output.profiles) :
                      summary_output.profiles[i].count >= 1

\* When nothing is raised, no returned profile is empty and there are at most
\* k of them.
C13_EmptyClustersOmitted ==
    (summary_output.done /\ ~summary_output.raised) =>
        /\ Len(summary_output.profiles) <= summary_input.num_buckets
        /\ \A i \in 1..Len(summary_output.profiles) :
               summary_output.profiles[i].count >= 1

\* C14: for a valid demographic and 1 <= k <= num_agents, summarize_population
\* returns exactly k profiles, each with count >= 1 and 0 < percentage <= 100.
C14_ExactlyKProfiles ==
    (/\ summary_output.done
     /\ 1 <= summary_input.num_buckets
     /\ summary_input.num_buckets <= summary_input.num_agents) =>
        /\ ~summary_output.raised
        /\ Len(summary_output.profiles) = summary_input.num_buckets
        /\ \A i \in 1..Len(summary_output.profiles) :
               LET p == summary_output.profiles[i]
               IN  /\ p.count >= 1
                   /\ p.percentage.n > 0
                   /\ p.percentage.n <= 100 * p.percentage.d

\* Agents that are all alike are one cluster, whatever k.
C14_OneKindOneProfile ==
    (/\ summary_output.done /\ ~summary_output.raised
     /\ \A i, j \in 1..Len(summary_agents) :
            feature(summary_agents[i]) = feature(summary_agents[j])) =>
        Len(summary_output.profiles) = 1

\* C15: the age-band word of a profile's name follows from the largest age of
\* its cluster alone: Young below 35, Middle-Aged from 35 and below 60, Senior
\* from 60.  Ages count 0.1 year.
C15_AgeBandFromMaxAge ==
    (summary_output.done /\ ~summary_output.raised) =>
        \A i \in 1..Len(summary_output.profiles) :
            LET p == summary_output.profiles[i]
                age_max == p.age_range[2]
            IN  /\ (age_max < 350) <=> (p.name[1] = "Young")
                /\ (350 <= age_max /\ age_max < 600) <=> (p.name[1] = "Middle-Aged")
                /\ (age_max >= 600) <=> (p.name[1] = "Senior")

\* A cluster whose youngest is 20 and whose oldest is 60 is Senior.
C15_Witness ==
    /\ summary_output.done /\ ~summary_output.raised
    /\ \E i \in 1..Len(summary_output.profiles) :
           /\ summary_output.profiles[i].age_range = <<200, 600>>
           /\ summary_output.profiles[i].name[1] = "Senior"

\* The label the thresholds give the means e and c, fractions of 0.01.
QuadrantLabels(e, c) ==
    LET lt(x, t) == x.n < t * x.d
        gt(x, t) == x.n > t * x.d
    IN  (IF gt(e, -20) /\ lt(e, 20) /\ gt(c, -20) /\ lt(c, 20)
         THEN {"Centrist"} ELSE {})
        \cup (IF lt(e, -20) /\ lt(c, -20) THEN {"Progressive"} ELSE {})
        \cup (IF gt(e, 20) /\ gt(c, 20) THEN {"Conservative"} ELSE {})
        \cup (IF lt(e, -20) /\ gt(c, 20)
              THEN {"Socially Conservative, Economically Liberal"} ELSE {})
        \cup (IF gt(e, 20) /\ lt(c, -20)
              THEN {"Socially Liberal, Economically Conservative"} ELSE {})

\* C16: the political label of a profile's name is a function of the cluster's
\* mean economic and mean cultural value alone: at most one of the five
\* quadrant conditions holds, the label is that one's, and it is Mixed when
\* none holds, as when a mean is exactly 0.2 or -0.2.
C16_PoliticalLabelFromEconomicAndCultural ==
    (summary_output.done /\ ~summary_output.raised) =>
        \A i \in 1..Len(summary_output.profiles) :
            LET p == summary_output.profiles[i]
                labels == QuadrantLabels(p.political_leaning.economic,
                                         p.political_leaning.cultural)
            IN  /\ Cardinality(labels) <= 1
                /\ labels # {} => p.name[4] \in labels
                /\ labels = {} => p.name[4] = "Mixed Political Views"

\* All six labels are met, Mixed with a mean economic value of exactly 0.2.
C16_Witness ==
    /\ summary_output.done /\ ~summary_output.raised
    /\ \E i \in 1..Len(summary_output.profiles) :
           LET p == summary_output.profiles[i]
           IN  /\ p.political_leaning.economic = Rat(20, 1)
               /\ p.political_leaning.cultural = Rat(-70, 1)
               /\ p.name[4] = "Mixed Political Views"
    /\ \E i \in 1..Len(summary_output.profiles) :
           summary_output.profiles[i].name[4]
               = "Socially Conservative, Economically Liberal"

----------------------------------------------------------------------------
(* summarize_multiple_demographics on lists of stored demographics         *)

\* Most demographics in one list.
MaxListed == 2

\* DemographicsBase: num_agents = Field(100, ge=1, le=10000)
DemographicsBase(v) == v.num_agents >= 1 /\ v.num_agents <= 10000

\* The names, populations and characteristics of the demographics listed.
ListedNames == {"Urban Professionals", "Rural Conservatives"}
ListedNumAgents == {0, 1, 2}
ListedDemographics ==
    {v \in [name : ListedNames, num_agents : ListedNumAgents,
            characteristics : {ExampleDemographic, SinglePointDemographic}] :
        DemographicsBase(v) /\ DemographicDistribution(v.characteristics)}
DemographicsLists == UNION {[1..n -> ListedDemographics] : n \in 0..MaxListed}

\* buckets[demographic.name] = summary, for the first k demographics of the list
RECURSIVE buckets_by_name(_, _, _)
buckets_by_name(demographics_list, summaries, k) ==
    IF k = 0 THEN <<>>
    ELSE LET before == buckets_by_name(demographics_list, summaries, k - 1)
         IN  [name \in DOMAIN before \cup {demographics_list[k].name} |->
                 IF name = demographics_list[k].name THEN summaries[k]
                 ELSE before[name]]

\* total_agents += demographic.num_agents, over the first k demographics
RECURSIVE total_num_agents(_, _)
total_num_agents(demographics_list, k) ==
    IF k = 0 THEN 0
    ELSE total_num_agents(demographics_list, k - 1) + demographics_list[k].num_agents

\* What fit_predict may answer for each population of the list: the seed is
\* fixed, so equal populations get equal labels.
fits_of(populations, num_profiles) ==
    {fits \in [1..Len(populations) ->
                  UNION {kmeans_labellings(populations[i], num_profiles) :
                             i \in 1..Len(populations)}] :
        /\ \A i \in 1..Len(populations) :
               fits[i] \in kmeans_labellings(populations[i], num_profiles)
        /\ \A i, j \in 1..Len(populations) :
               populations[i] = populations[j] => fits[i] = fits[j]}

\* summarize_multiple_demographics(demographics_list, num_buckets_per_demographic)
SummarizeMultiple(demographics_list, num_buckets_per_demographic) ==
    /\ multi_input' =
           [demographics_list |-> demographics_list,
            num_buckets_per_demographic |-> num_buckets_per_demographic]
    /\ \E populations \in
              {[i \in 1..Len(demographics_list) |->
                   generate_synthetic_agents(demographics_list[i].characteristics,
                                             demographics_list[i].num_agents)]} :
           IF \E i \in 1..Len(populations) :
                  kmeans_raises(populations[i], num_buckets_per_demographic)
           THEN multi_output' = [NoMultiSummary EXCEPT !.done = TRUE, !.raised = TRUE]
           ELSE \E fits \in fits_of(populations, num_buckets_per_demographic) :
                    multi_output' =
                        [done |-> TRUE, raised |-> FALSE,
                         demographic_buckets |->
                             buckets_by_name(
                                 demographics_list,
                                 [i \in 1..Len(populations) |->
                                     PopulationBuckets(populations[i],
                                                       demographics_list[i].num_agents,
                                                       fits[i])],
                                 Len(demographics_list)),
                         total_agents |->
                             total_num_agents(demographics_list, Len(demographics_list))]
    /\ UNCHANGED notMultiVars

MultiInit ==
    /\ SamplerIdle /\ GenerationIdle /\ MeanIdle /\ BulkIdle /\ SummaryIdle
    /\ MultiIdle /\ AgentsIdle /\ WorkersIdle /\ SchemasIdle /\ CrudIdle

MultiNext ==
    /\ ~multi_output.done
    /\ \E demographics_list \in DemographicsLists, k \in 1..MaxBuckets :
           SummarizeMultiple(demographics_list, k)

SpecMultiple == MultiInit /\ [][MultiNext]_vars

\* C17: summarize_multiple_demographics returns a map with one entry for each
\* demographic of the list, under its name, so as many entries as
\* demographics, and total_agents is the sum of their num_agents.
C17_OneEntryPerDemographic ==
    (multi_output.done /\ ~multi_output.raised) =>
        LET demographics_list == multi_input.demographics_list
        IN  /\ \A i \in 1..Len(demographics_list) :
                   demographics_list[i].name \in DOMAIN multi_output.demographic_buckets
            /\ Cardinality(DOMAIN multi_output.demographic_buckets)
                   = Len(demographics_list)
            /\ multi_output.total_agents
                   = total_num_agents(demographics_list, Len(demographics_list))

\* Of two demographics of one name the map holds the later one's buckets alone,
\* while total_agents counts both.
C17_LaterOfANameKept ==
    (multi_output.done /\ ~multi_output.raised) =>
        LET demographics_list == multi_input.demographics_list
        IN  /\ DOMAIN multi_output.demographic_buckets
                   = {demographics_list[i].name : i \in 1..Len(demographics_list)}
            /\ \A i \in 1..Len(demographics_list) :
                   (\A j \in (i + 1)..Len(demographics_list) :
                        demographics_list[j].name # demographics_list[i].name) =>
                       multi_output.demographic_buckets[demographics_list[i].name]
                           .total_agents = demographics_list[i].num_agents
            /\ multi_output.total_agents
                   = total_num_agents(demographics_list, Len(demographics_list))

----------------------------------------------------------------------------
(* generate_agents: the loop over the agents of one stored demographic,    *)
(* called, and called again for the same demographic                       *)

\* Largest num_agents of the demographic, and most calls of generate_agents.
MaxPopulation == 3
MaxGenerateCalls == 2

\* The stored demographics handed to generate_agents, and the session ids.
StoredDemographics ==
    {v \in [id : {1, 2}, name : {"Urban Professionals"},
            num_agents : 0..MaxPopulation,
            characteristics :
                {d \in Demographics :
                    /\ d.numerical.income_level.range = <<2000, 20000>>
                    /\ d.numerical.religiosity.range = <<0, 100>>}] :
        DemographicsBase(v)}
SessionIds == {1, 2}

\* seed = f"{demographic.id}_{demographic.name}"
demographic_seed(demographic) == ToString(demographic.id) \o "_" \o demographic.name

\* agent_seed = f"{seed}_{i}"
agent_seed(seed, i) == seed \o "_" \o ToString(i)

\* create_agent_in_db: the Agent row built from the characteristics.
create_agent_in_db(agent_characteristics, session_id) ==
    [session_id |-> session_id,
     numerical_characteristics |-> agent_characteristics.numerical,
     categorical_characteristics |-> agent_characteristics.categorical]

\* db.add(db_agent)
db_add(db, db_agent) == [db EXCEPT !.pending = Append(@, db_agent)]

\* A commit put off to the end of the loop: the row stays pending.
db_commit_deferred(db) == db

\* db.commit(): the pending rows become rows of the table.
db_commit(db) == [committed |-> db.committed \o db.pending, pending |-> <<>>]

\* db.commit() raising: the transaction is rolled back, the pending rows are
\* gone and the rows committed before stay.
db_commit_failed(db) == [committed |-> db.committed, pending |-> <<>>]

\* generate_agents(demographic, session_id, db) is entered: the distributions
\* are validated and the list is empty.
CallGenerateAgents ==
    /\ Len(ga_calls) < MaxGenerateCalls
    /\ \A c \in 1..Len(ga_calls) : ga_calls[c].status # "running"
    /\ ga_calls' =
           Append(ga_calls,
                  IF DemographicDistribution(ga_input.demographic.characteristics)
                  THEN [i |-> 0, agents |-> <<>>, status |-> "running",
                        failed |-> "", before |-> ga_db.committed]
                  ELSE [i |-> 0, agents |-> <<>>, status |-> "raised",
                        failed |-> "validation", before |-> ga_db.committed])
    /\ UNCHANGED <<ga_input, ga_db>>
    /\ UNCHANGED notAgentsVars

\* One turn of the loop: agent i is generated on its own generator, added,
\* committed and appended.  The commit succeeds or raises, as the database
\* decides; an exception of either step leaves generate_agents.
GenerateAgent ==
    /\ ga_calls # <<>>
    /\ ga_calls[Len(ga_calls)].status = "running"
    /\ ga_calls[Len(ga_calls)].i < ga_input.demographic.num_agents
    /\ \E agent_characteristics \in
              {generate_agent_characteristics(
                   ga_input.demographic.characteristics,
                   DeterministicRandom(
                       agent_seed(demographic_seed(ga_input.demographic),
                                  ga_calls[Len(ga_calls)].i)))} :
           IF agent_characteristics.raised
           THEN /\ ga_calls' = [ga_calls EXCEPT ![Len(ga_calls)].status = "raised",
                                                ![Len(ga_calls)].failed = "generation"]
                /\ ga_db' = ga_db
           ELSE \E db_agent \in {create_agent_in_db(agent_characteristics,
                                                    ga_input.session_id)} :
                    \/ /\ ga_db' = db_commit(db_add(ga_db, db_agent))
                       /\ ga_calls' =
                              [ga_calls EXCEPT
                                   ![Len(ga_calls)].agents = Append(@, db_agent),
                                   ![Len(ga_calls)].i = @ + 1]
                    \/ /\ ga_db' = db_commit_failed(db_add(ga_db, db_agent))
                       /\ ga_calls' =
                              [ga_calls EXCEPT
                                   ![Len(ga_calls)].status = "raised",
                                   ![Len(ga_calls)].failed = "persistence"]
    /\ UNCHANGED ga_input
    /\ UNCHANGED notAgentsVars

\* return agents
ReturnAgents ==
    /\ ga_calls # <<>>
    /\ ga_calls[Len(ga_calls)].status = "running"
    /\ ga_calls[Len(ga_calls)].i >= ga_input.demographic.num_agents
    /\ ga_calls' = [ga_calls EXCEPT ![Len(ga_calls)].status = "returned"]
    /\ UNCHANGED <<ga_input, ga_db>>
    /\ UNCHANGED notAgentsVars

AgentsInit ==
    /\ SamplerIdle /\ GenerationIdle /\ MeanIdle /\ BulkIdle /\ SummaryIdle
    /\ MultiIdle /\ WorkersIdle /\ SchemasIdle /\ CrudIdle
    /\ ga_input \in [demographic : StoredDemographics, session_id : SessionIds]
    /\ ga_calls = <<>>
    /\ ga_db = [committed |-> <<>>, pending |-> <<>>]

AgentsNext == CallGenerateAgents \/ GenerateAgent \/ ReturnAgents

SpecAgents == AgentsInit /\ [][AgentsNext]_vars

\* What the sequential loop makes of index i of a demographic.
AgentOfIndex(demographic, i) ==
    generate_agent_characteristics(
        demographic.characteristics,
        DeterministicRandom(agent_seed(demographic_seed(demographic), i)))

\* C18: generate_agents for a demographic with num_agents = n creates and
\* returns exactly n agents in the order of the indices 0..n-1, agent i from
\* a generator seeded with "<id>_<name>_<i>", so that a second call for the
\* same demographic returns the same list of characteristics.
C18_ReturnsNAgentsInIndexOrder ==
    \A c \in 1..Len(ga_calls) :
        ga_calls[c].status # "running" =>
            /\ ga_calls[c].status = "returned"
            /\ Len(ga_calls[c].agents) = ga_input.demographic.num_agents
            /\ \A k \in 1..Len(ga_calls[c].agents) :
                   \E expected \in {AgentOfIndex(ga_input.demographic, k - 1)} :
                       /\ ga_calls[c].agents[k].numerical_characteristics
                              = expected.numerical
                       /\ ga_calls[c].agents[k].categorical_characteristics
                              = expected.categorical
            /\ ga_calls[c].agents = ga_calls[1].agents

\* A call that returns has returned the n agents in index order, and two calls
\* for the same demographic end alike unless a commit failed.
C18_ReturnedListInIndexOrder ==
    \A c \in 1..Len(ga_calls) :
        /\ ga_calls[c].status = "returned" =>
               /\ Len(ga_calls[c].agents) = ga_input.demographic.num_agents
               /\ \A k \in 1..Len(ga_calls[c].agents) :
                      \E expected \in {AgentOfIndex(ga_input.demographic, k - 1)} :
                          /\ ga_calls[c].agents[k].numerical_characteristics
                                 = expected.numerical
                          /\ ga_calls[c].agents[k].categorical_characteristics
                                 = expected.categorical
        /\ (/\ ga_calls[c].status # "running"
            /\ ga_calls[c].failed # "persistence"
            /\ ga_calls[1].failed # "persistence") =>
               /\ ga_calls[c].status = ga_calls[1].status
               /\ ga_calls[c].agents = ga_calls[1].agents

C18_Regenerated ==
    /\ Len(ga_calls) = 2
    /\ ga_calls[2].status = "returned"
    /\ Len(ga_calls[2].agents) = 3
    /\ ga_calls[2].agents[1] # ga_calls[2].agents[2]
    /\ Len(ga_db.committed) = 6

\* C29: generate_agents persists the agents one at a time, agent i generated
\* and committed before agent i+1 is generated: the rows a call has committed
\* are the agents of the turns it has made, in order.  When the generation or
\* the persistence of agent i fails, the agents 0..i-1 stay committed and no
\* list is returned: the population is not created atomically.
C29_AgentsCommittedOneAtATime ==
    \A c \in 1..Len(ga_calls) :
        LET call == ga_calls[c]
            after == IF c < Len(ga_calls) THEN ga_calls[c + 1].before
                     ELSE ga_db.committed
        IN  /\ after = call.before \o call.agents
            /\ Len(call.agents) = call.i
            /\ ga_db.pending = <<>>
            /\ \A k \in 1..Len(call.agents) :
                   \E expected \in {AgentOfIndex(ga_input.demographic, k - 1)} :
                       /\ call.agents[k].numerical_characteristics = expected.numerical
                       /\ call.agents[k].categorical_characteristics
                              = expected.categorical
            /\ call.status = "returned" => call.i = ga_input.demographic.num_agents
            /\ (call.status = "raised" /\ call.failed \in {"generation", "persistence"})
                   => call.i < ga_input.demographic.num_agents

\* The commit of agent 2 failed: agents 0 and 1 are rows of the table and the
\* call has raised.
C29_Witness ==
    /\ Len(ga_calls) = 1
    /\ ga_calls[1].status = "raised"
    /\ ga_calls[1].failed = "persistence"
    /\ ga_calls[1].i = 2
    /\ Len(ga_db.committed) = 2
    /\ ga_db.committed = ga_calls[1].agents

\* A call has raised in the generation of its first agent: no row is committed.
C29_GenerationFailed ==
    /\ Len(ga_calls) = 1
    /\ ga_calls[1].status = "raised"
    /\ ga_calls[1].failed = "generation"
    /\ ga_db.committed = <<>>

----------------------------------------------------------------------------
(* The turns of generate_agents' loop run by workers, one per agent index, *)
(* in any interleaving.  A worker constructs its generator, generates the  *)
(* numerical and then the categorical characteristics                      *)

\* The DeterministicRandom instance every worker draws from, were it one object
\* shared by all of them.
agent_random_shared(i) == 0

\* agent_random = DeterministicRandom(agent_seed): an instance of the turn's own.
agent_random(i) == i

Indices == 0..(wk_input.num_agents - 1)

\* agent_random = DeterministicRandom(agent_seed), by the worker of index i
WorkerNewRandom(i) ==
    /\ wk_pc[i] = "start"
    /\ wk_rngs' = [wk_rngs EXCEPT
                       ![agent_random(i)] =
                           DeterministicRandom(agent_seed(demographic_seed(wk_input), i))]
    /\ wk_pc' = [wk_pc EXCEPT ![i] = "seeded"]
    /\ UNCHANGED <<wk_input, wk_partial, wk_results>>
    /\ UNCHANGED notWorkersVars

\* numerical_chars = generate_numerical_characteristics(...), by the worker of i
WorkerNumerical(i) ==
    /\ wk_pc[i] = "seeded"
    /\ \E out \in {generate_numerical_characteristics(
                       wk_input.characteristics.numerical,
                       wk_rngs[agent_random(i)])} :
           /\ wk_rngs' = [wk_rngs EXCEPT ![agent_random(i)] = out.random]
           /\ wk_partial' = [wk_partial EXCEPT ![i] = out.value]
           /\ wk_pc' = [wk_pc EXCEPT ![i] = IF out.raised THEN "raised" ELSE "numerical"]
    /\ UNCHANGED <<wk_input, wk_results>>
    /\ UNCHANGED notWorkersVars

\* categorical_chars = generate_categorical_characteristics(...) and the return,
\* by the worker of i
WorkerCategorical(i) ==
    /\ wk_pc[i] = "numerical"
    /\ \E out \in {generate_categorical_characteristics(
                       wk_input.characteristics.categorical,
                       wk_rngs[agent_random(i)])} :
           /\ wk_rngs' = [wk_rngs EXCEPT ![agent_random(i)] = out.random]
           /\ wk_results' =
                  [wk_results EXCEPT
                       ![i] = [numerical |-> wk_partial[i], categorical |-> out.value]]
           /\ wk_pc' = [wk_pc EXCEPT ![i] = IF out.raised THEN "raised" ELSE "done"]
    /\ UNCHANGED <<wk_input, wk_partial>>
    /\ UNCHANGED notWorkersVars

WorkersInit ==
    /\ SamplerIdle /\ GenerationIdle /\ MeanIdle /\ BulkIdle /\ SummaryIdle
    /\ MultiIdle /\ AgentsIdle /\ SchemasIdle /\ CrudIdle
    /\ wk_input \in StoredDemographics
    /\ wk_pc = [i \in Indices |-> "start"]
    /\ wk_rngs = [i \in Indices |-> 0]
    /\ wk_partial = [i \in Indices |-> NoNumerical]
    /\ wk_results = [i \in Indices |-> [numerical |-> NoNumerical,
                                        categorical |-> NoCategorical]]

WorkersNext ==
    \/ \E i \in Indices : WorkerNewRandom(i)
    \/ \E i \in Indices : WorkerNumerical(i)
    \/ \E i \in Indices : WorkerCategorical(i)

SpecWorkers == WorkersInit /\ [][WorkersNext]_vars

\* C19: whatever the interleaving of the workers' steps, the worker of index
\* i ends with what the sequential loop makes of index i, which follows from
\* the demographic and the seed of i alone: not from num_agents, nor from the
\* agents generated before or meanwhile.
C19_InterleavingGivesSequentialAgents ==
    \A i \in Indices :
        wk_pc[i] \in {"done", "raised"} =>
            \E expected \in {AgentOfIndex(wk_input, i)} :
                /\ (wk_pc[i] = "raised") <=> expected.raised
                /\ wk_pc[i] = "done" =>
                       /\ wk_results[i].numerical = expected.numerical
                       /\ wk_results[i].categorical = expected.categorical

\* The worker of index 2 has finished while the worker of index 0 is between
\* its two halves and the worker of index 1 has only made its generator.
C19_Witness ==
    /\ wk_input.num_agents = 3
    /\ wk_pc[2] = "done"
    /\ wk_pc[0] = "numerical"
    /\ wk_pc[1] = "seeded"
    /\ wk_results[2].numerical = AgentOfIndex(wk_input, 2).numerical
    /\ wk_results[2].numerical # wk_partial[0]

----------------------------------------------------------------------------
(* schemas.py: building a CategoricalCharacteristicsDistribution and an     *)
(* AgentCategoricalCharacteristics from labels in and outside the          *)
(* enumerations                                                            *)

\* The enumeration of each categorical trait.
TraitEnum ==
    [race_ethnicity |-> RaceEthnicity, gender |-> Gender, religion |-> Religion,
     urbanization |-> Urbanization, education_style |-> EducationStyle,
     employment_style |-> EmploymentStyle]
CategoricalTraits == DOMAIN TraitEnum

\* For each trait a label of its enumeration and labels outside it: another
\* spelling of a member, a member of another trait's enumeration.
TriedLabels ==
    [race_ethnicity |-> {"white", "White", "urban"},
     gender |-> {"female", "Female", "retired"},
     religion |-> {"other", "none"},
     urbanization |-> {"rural", "Rural"},
     education_style |-> {"vocational", "formal k-12 "},
     employment_style |-> {"retired", "student"}]

\* The distributions tried: each trait one label of probability 1.
TriedCategoricalDistributions ==
    {[race_ethnicity |-> <<Cat(r, 1000)>>, gender |-> <<Cat(g, 1000)>>,
      religion |-> <<Cat(l, 1000)>>, urbanization |-> <<Cat(u, 1000)>>,
      education_style |-> <<Cat(e, 1000)>>, employment_style |-> <<Cat(m, 1000)>>,
      location |-> "New York"] :
        r \in TriedLabels.race_ethnicity, g \in TriedLabels.gender,
        l \in TriedLabels.religion, u \in TriedLabels.urbanization,
        e \in TriedLabels.education_style, m \in TriedLabels.employment_style}

TriedAgentCategoricals ==
    {[race_ethnicity |-> r, gender |-> g, religion |-> l, urbanization |-> u,
      education_style |-> e, employment_style |-> m, location |-> "New York"] :
        r \in TriedLabels.race_ethnicity, g \in TriedLabels.gender,
        l \in TriedLabels.religion, u \in TriedLabels.urbanization,
        e \in TriedLabels.education_style, m \in TriedLabels.employment_style}

\* CategoricalCharacteristicsDistribution(**fields)
BuildCategoricalDistribution(fields) ==
    /\ sch_input' = [model |-> "CategoricalCharacteristicsDistribution",
                     fields |-> fields]
    /\ sch_object' = IF CategoricalCharacteristicsDistribution(fields)
                     THEN [built |-> TRUE, rejected |-> FALSE, fields |-> fields]
                     ELSE [built |-> FALSE, rejected |-> TRUE, fields |-> <<>>]
    /\ UNCHANGED notSchemasVars

\* AgentCategoricalCharacteristics(**fields)
BuildAgentCategorical(fields) ==
    /\ sch_input' = [model |-> "AgentCategoricalCharacteristics", fields |-> fields]
    /\ sch_object' = IF AgentCategoricalCharacteristics(fields)
                     THEN [built |-> TRUE, rejected |-> FALSE, fields |-> fields]
                     ELSE [built |-> FALSE, rejected |-> TRUE, fields |-> <<>>]
    /\ UNCHANGED notSchemasVars

SchemasInit ==
    /\ SamplerIdle /\ GenerationIdle /\ MeanIdle /\ BulkIdle /\ SummaryIdle
    /\ MultiIdle /\ AgentsIdle /\ WorkersIdle /\ SchemasIdle /\ CrudIdle

SchemasNext ==
    \/ /\ ~sch_object.built /\ ~sch_object.rejected
       /\ \E fields \in TriedCategoricalDistributions :
              BuildCategoricalDistribution(fields)
    \/ /\ ~sch_object.built /\ ~sch_object.rejected
       /\ \E fields \in TriedAgentCategoricals : BuildAgentCategorical(fields)

SpecSchemas == SchemasInit /\ [][SchemasNext]_vars

\* C23: a categorical distribution holding a label outside the enumeration of
\* its trait is rejected when the demographic specification is built, and
\* AgentCategoricalCharacteristics given such a label is rejected too, never
\* built with the label coerced: a built object holds, in each field, the
\* label given, a member of the trait's enumeration.
C23_LabelsOutsideEnumerationRejected ==
    (sch_object.built \/ sch_object.rejected) =>
        /\ sch_input.model = "CategoricalCharacteristicsDistribution" =>
               /\ (\E t \in CategoricalTraits :
                       \E i \in 1..Len(sch_input.fields[t]) :
                           sch_input.fields[t][i].category \notin TraitEnum[t])
                      => (sch_object.rejected /\ ~sch_object.built)
               /\ sch_object.built =>
                      \A t \in CategoricalTraits :
                          \A i \in 1..Len(sch_object.fields[t]) :
                              sch_object.fields[t][i].category \in TraitEnum[t]
        /\ sch_input.model = "AgentCategoricalCharacteristics" =>
               /\ (\E t \in CategoricalTraits : sch_input.fields[t] \notin TraitEnum[t])
                      => (sch_object.rejected /\ ~sch_object.built)
               /\ sch_object.built =>
                      \A t \in CategoricalTraits :
                          /\ sch_object.fields[t] \in TraitEnum[t]
                          /\ sch_object.fields[t] = sch_input.fields[t]

\* A distribution whose only fault is the gender label "Female" is rejected.
C23_Witness ==
    /\ sch_input.model = "CategoricalCharacteristicsDistribution"
    /\ sch_object.rejected
    /\ sch_input.fields.gender = <<[category |-> "Female", probability |-> 1000]>>
    /\ \A t \in CategoricalTraits \ {"gender"} :
           sch_input.fields[t][1].category \in TraitEnum[t]

\* An agent's characteristics whose only fault is the urbanization "Rural" are
\* rejected, and ones with every label in its enumeration are built.
C23_AgentLabelRejected ==
    /\ sch_input.model = "AgentCategoricalCharacteristics"
    /\ sch_object.rejected
    /\ sch_input.fields.urbanization = "Rural"
    /\ \A t \in CategoricalTraits \ {"urbanization"} :
           sch_input.fields[t] \in TraitEnum[t]

C23_AgentBuilt ==
    /\ sch_input.model = "AgentCategoricalCharacteristics"
    /\ sch_object.built
    /\ sch_object.fields.gender = "female"

----------------------------------------------------------------------------
(* db/crud.py on the agents and demographics tables of db/models.py.  A    *)
(* table is a function from the ids of its rows; a sequence gives each new *)
(* row the id after the last it gave, whether or not the insert commits.   *)

\* Most crud calls in one run.
MaxCrudCalls == 3

\* The ids the calls are made with.
TriedIds == {1, 2}

\* Column(Integer, nullable=False, default=100)
num_agents_default == 100

\* What AgentCreate is given; the session exists.
AgentCreateInputs ==
    [session_id : {1},
     numerical_characteristics : {[age |-> 30], [age |-> 31]},
     categorical_characteristics : {[gender |-> "male"]}]

\* The dictionaries update_agent is given: columns of the row by name.
DataUpdates ==
    {[numerical_characteristics |-> [age |-> 31]],
     [numerical_characteristics |-> [age |-> 32],
      categorical_characteristics |-> [gender |-> "female"]]}
KeyUpdates ==
    {[id |-> k] : k \in TriedIds}
    \cup {[id |-> k, numerical_characteristics |-> [age |-> 31]] : k \in TriedIds}

\* What DemographicsCreate is given, and accepts.
DemographicsCreateInputs ==
    {v \in [name : {"Test Demographic"},
            numerical_characteristics : {[age_min |-> 18, age_max |-> 65]},
            categorical_characteristics : {[occupation |-> "white-collar"]},
            num_agents : {0, 1, 100, 250}] : DemographicsBase(v)}

Insert(table, id, row) ==
    [i \in DOMAIN table \cup {id} |-> IF i = id THEN row ELSE table[i]]
Remove(table, id) == [i \in DOMAIN table \ {id} |-> table[i]]

\* db.query(models.Agent).filter(models.Agent.id == agent_id).first()
get_agent_by_id(agent_id) ==
    IF agent_id \in DOMAIN db_agents THEN ReturnRow(agent_id, db_agents[agent_id])
    ELSE ReturnNone

\* db.query(models.Demographics).filter(models.Demographics.id == demographic_id).first()
get_demographic_by_id(demographic_id) ==
    IF demographic_id \in DOMAIN db_demographics
    THEN ReturnRow(demographic_id, db_demographics[demographic_id])
    ELSE ReturnNone

\* models.Demographics(...) with num_agents handed on as the other fields are.
new_demographic_with_num_agents(demographic_data) ==
    [name |-> demographic_data.name,
     numerical_characteristics |-> demographic_data.numerical_characteristics,
     categorical_characteristics |-> demographic_data.categorical_characteristics,
     num_agents |-> demographic_data.num_agents]

\* models.Demographics(name=..., numerical_characteristics=...,
\* categorical_characteristics=...): num_agents is not handed on, the column's
\* default fills it at the insert.
new_demographic(demographic_data) ==
    [name |-> demographic_data.name,
     numerical_characteristics |-> demographic_data.numerical_characteristics,
     categorical_characteristics |-> demographic_data.categorical_characteristics,
     num_agents |-> num_agents_default]

\* for key, value in agent_data.items(): setattr(db_agent, key, value), on the
\* columns other than id; `inserted` is not a column: it names the insert that
\* made the row.
set_attributes(db_agent, agent_data) ==
    [key \in DOMAIN db_agent |->
        IF key \in DOMAIN agent_data THEN agent_data[key] ELSE db_agent[key]]

\* The row's id after the setattr loop.
set_id(agent_id, agent_data) ==
    IF "id" \in DOMAIN agent_data THEN agent_data.id ELSE agent_id

\* Every call is one more, of at most MaxCrudCalls.
Called(call, id, data, raised, result) ==
    /\ crud_calls < MaxCrudCalls
    /\ crud_calls' = crud_calls + 1
    /\ crud_last' = [call |-> call, id |-> id, data |-> data, raised |-> raised,
                     result |-> result, before |-> db_agents]

\* create_agent(db, agent_data): the insert fails when the id the sequence
\* gives is already a row's.
create_agent(agent_data) ==
    LET id == db_sequences.agents + 1
        db_agent == [session_id |-> agent_data.session_id,
                     numerical_characteristics |-> agent_data.numerical_characteristics,
                     categorical_characteristics |->
                         agent_data.categorical_characteristics,
                     inserted |-> id]
    IN  /\ db_sequences' = [db_sequences EXCEPT !.agents = id]
        /\ IF id \in DOMAIN db_agents
           THEN /\ Called("create_agent", 0, agent_data, TRUE, ReturnNone)
                /\ UNCHANGED <<db_agents, crud_created>>
           ELSE /\ db_agents' = Insert(db_agents, id, db_agent)
                /\ crud_created' =
                       [crud_created EXCEPT !.agents = Insert(@, id, agent_data)]
                /\ Called("create_agent", id, agent_data, FALSE,
                          ReturnRow(id, db_agent))
        /\ UNCHANGED <<db_demographics, crud_deleted>>
        /\ UNCHANGED notCrudVars

\* get_agent_by_id(db, agent_id)
GetAgentById(agent_id) ==
    /\ Called("get_agent_by_id", agent_id, <<>>, FALSE, get_agent_by_id(agent_id))
    /\ UNCHANGED <<db_agents, db_demographics, db_sequences, crud_created,
                   crud_deleted>>
    /\ UNCHANGED notCrudVars

\* update_agent(db, agent_id, agent_data): the commit fails, and nothing is
\* changed, when the id set is another row's.
update_agent(agent_id, agent_data) ==
    /\ IF agent_id \notin DOMAIN db_agents
       THEN /\ Called("update_agent", agent_id, agent_data, FALSE, ReturnNone)
            /\ UNCHANGED db_agents
       ELSE LET db_agent == set_attributes(db_agents[agent_id], agent_data)
                id == set_id(agent_id, agent_data)
            IN  IF id # agent_id /\ id \in DOMAIN db_agents
                THEN /\ Called("update_agent", agent_id, agent_data, TRUE, ReturnNone)
                     /\ UNCHANGED db_agents
                ELSE /\ db_agents' = Insert(Remove(db_agents, agent_id), id, db_agent)
                     /\ Called("update_agent", agent_id, agent_data, FALSE,
                               ReturnRow(id, db_agent))
    /\ UNCHANGED <<db_demographics, db_sequences, crud_created, crud_deleted>>
    /\ UNCHANGED notCrudVars

\* delete_agent(db, agent_id)
delete_agent(agent_id) ==
    /\ IF agent_id \in DOMAIN db_agents
       THEN /\ db_agents' = Remove(db_agents, agent_id)
            /\ Called("delete_agent", agent_id, <<>>, FALSE, ReturnBool(TRUE))
       ELSE /\ UNCHANGED db_agents
            /\ Called("delete_agent", agent_id, <<>>, FALSE, ReturnBool(FALSE))
    /\ crud_deleted' = crud_deleted \cup ({agent_id} \cap DOMAIN crud_created.agents)
    /\ UNCHANGED <<db_demographics, db_sequences, crud_created>>
    /\ UNCHANGED notCrudVars

\* create_demographic(db, demographic_data)
create_demographic(demographic_data) ==
    LET id == db_sequences.demographics + 1
        db_demographic == new_demographic(demographic_data)
    IN  /\ db_sequences' = [db_sequences EXCEPT !.demographics = id]
        /\ db_demographics' = Insert(db_demographics, id, db_demographic)
        /\ crud_created' =
               [crud_created EXCEPT !.demographics = Insert(@, id, demographic_data)]
        /\ Called("create_demographic", id, demographic_data, FALSE,
                  ReturnRow(id, db_demographic))
        /\ UNCHANGED <<db_agents, crud_deleted>>
        /\ UNCHANGED notCrudVars

\* get_demographic_by_id(db, demographic_id)
GetDemographicById(demographic_id) ==
    /\ Called("get_demographic_by_id", demographic_id, <<>>, FALSE,
              get_demographic_by_id(demographic_id))
    /\ UNCHANGED <<db_agents, db_demographics, db_sequences, crud_created,
                   crud_deleted>>
    /\ UNCHANGED notCrudVars

CrudInit ==
    /\ SamplerIdle /\ GenerationIdle /\ MeanIdle /\ BulkIdle /\ SummaryIdle
    /\ MultiIdle /\ AgentsIdle /\ WorkersIdle /\ SchemasIdle /\ CrudIdle

CrudNext ==
    \/ \E agent_data \in AgentCreateInputs : create_agent(agent_data)
    \/ \E agent_id \in TriedIds : GetAgentById(agent_id)
    \/ \E agent_id \in TriedIds, agent_data \in DataUpdates \cup KeyUpdates :
           update_agent(agent_id, agent_data)
    \/ \E agent_id \in TriedIds : delete_agent(agent_id)
    \/ \E demographic_data \in DemographicsCreateInputs :
           create_demographic(demographic_data)
    \/ \E demographic_id \in TriedIds : GetDemographicById(demographic_id)

SpecCrud == CrudInit /\ [][CrudNext]_vars

\* The same calls with update_agent given the data columns alone, as the tests
\* give it.
CrudDataNext ==
    \/ \E agent_data \in AgentCreateInputs : create_agent(agent_data)
    \/ \E agent_id \in TriedIds : GetAgentById(agent_id)
    \/ \E agent_id \in TriedIds, agent_data \in DataUpdates :
           update_agent(agent_id, agent_data)
    \/ \E agent_id \in TriedIds : delete_agent(agent_id)
    \/ \E demographic_data \in DemographicsCreateInputs :
           create_demographic(demographic_data)
    \/ \E demographic_id \in TriedIds : GetDemographicById(demographic_id)

SpecCrudData == CrudInit /\ [][CrudDataNext]_vars

----------------------------------------------------------------------------
(* Claims on the crud calls (SpecCrud)                                     *)

\* C24: after any sequence of agent crud calls, get_agent_by_id(id) returns
\* the agent of the create_agent that produced id until delete_agent(id) is
\* called; delete_agent(id) returns True exactly when the agent existed, and
\* get_agent_by_id(id) returns None after it; delete_agent and update_agent on a
\* missing id return False and None and leave every stored agent as it was.
C24_AgentCrud ==
    /\ \A id \in DOMAIN crud_created.agents :
           IF id \in crud_deleted
           THEN get_agent_by_id(id) = ReturnNone
           ELSE /\ get_agent_by_id(id).kind = "row"
                /\ get_agent_by_id(id).row.inserted = id
    /\ crud_last.call = "get_agent_by_id" =>
           crud_last.result = get_agent_by_id(crud_last.id)
    /\ crud_last.call = "delete_agent" =>
           /\ ~crud_last.raised
           /\ crud_last.result = ReturnBool(crud_last.id \in DOMAIN crud_last.before)
           /\ get_agent_by_id(crud_last.id) = ReturnNone
    /\ (crud_last.call \in {"delete_agent", "update_agent"}
        /\ crud_last.id \notin DOMAIN crud_last.before) =>
           /\ ~crud_last.raised
           /\ crud_last.result = IF crud_last.call = "delete_agent"
                                 THEN ReturnBool(FALSE) ELSE ReturnNone
           /\ db_agents = crud_last.before

\* An agent created, updated and deleted is gone, and the delete returned True.
C24_CreatedUpdatedDeleted ==
    /\ crud_last.call = "delete_agent"
    /\ crud_last.id = 1
    /\ crud_last.result = ReturnBool(TRUE)
    /\ crud_last.before[1].numerical_characteristics = [age |-> 32]
    /\ get_agent_by_id(1) = ReturnNone

\* update_agent has moved the agent created under id 1 to id 2.
C24_AgentRekeyed ==
    /\ 1 \in DOMAIN crud_created.agents
    /\ 1 \notin crud_deleted
    /\ get_agent_by_id(1) = ReturnNone
    /\ get_agent_by_id(2).kind = "row"
    /\ get_agent_by_id(2).row.inserted = 1

\* C30: create_demographic followed by get_demographic_by_id returns a
\* demographic whose name, numerical_characteristics,
\* categorical_characteristics and num_agents all equal the values of the
\* DemographicsCreate given.
C30_CreatedDemographicReadBack ==
    (crud_last.call = "get_demographic_by_id"
     /\ crud_last.id \in DOMAIN crud_created.demographics) =>
        LET demographic_data == crud_created.demographics[crud_last.id]
        IN  /\ crud_last.result.kind = "row"
            /\ crud_last.result.row.name = demographic_data.name
            /\ crud_last.result.row.numerical_characteristics
                   = demographic_data.numerical_characteristics
            /\ crud_last.result.row.categorical_characteristics
                   = demographic_data.categorical_characteristics
            /\ crud_last.result.row.num_agents = demographic_data.num_agents

\* What is read back: the name and the characteristics given, and the column
\* default for num_agents whatever was given.
C30_ReadBackWithDefaultNumAgents ==
    (crud_last.call = "get_demographic_by_id"
     /\ crud_last.id \in DOMAIN crud_created.demographics) =>
        LET demographic_data == crud_created.demographics[crud_last.id]
        IN  /\ crud_last.result.kind = "row"
            /\ crud_last.result.row.name = demographic_data.name
            /\ crud_last.result.row.numerical_characteristics
                   = demographic_data.numerical_characteristics
            /\ crud_last.result.row.categorical_characteristics
                   = demographic_data.categorical_characteristics
            /\ crud_last.result.row.num_agents = num_agents_default

\* A demographic created with num_agents = 250 has been read back.
C30_ReadBack250 ==
    /\ crud_last.call = "get_demographic_by_id"
    /\ crud_last.id \in DOMAIN crud_created.demographics
    /\ crud_created.demographics[crud_last.id].num_agents = 250
    /\ crud_last.result.row.num_agents = 100

====
